---- MODULE Spec2Model ----
(***************************************************************************)
(* PyMapify: Map.loadMapData with its worker pool, Map._groupLocations and *)
(* Map.plotMap (src/src/pymapify/pymapify.py), the schema migration runner *)
(* of src/src/pymapify/tools/database.py and loadDataFromCSV of            *)
(* src/examples/example_load_data.py, as state machines.                   *)
(***************************************************************************)
EXTENDS Integers, Sequences, FiniteSets, TLC

(***************************************************************************)
(* Bounds of the model.                                                    *)
(***************************************************************************)
\* rows of the CSV file (index labels 0 .. MaxRows-1)
MaxRows == 3
\* latitudes 0 .. MaxLat and longitudes 0 .. MaxLon, in grid units
MaxLat == 2
MaxLon == 1
\* group thresholds 1 .. MaxThreshold, in the same units
MaxThreshold == 2
\* schema versions 1 .. MaxVersion
MaxVersion == 3
\* createDatabase and upgradeDatabase calls made on the server
MaxCalls == 3
\* rows of the CSV files that loadDataFromCSV reads, all loads together
MaxCsvRows == 2
\* rows of the CSV file that Map.loadMapData reads
MaxPoolRows == 2

VARIABLES
    \* ---- Map (pymapify.py) ----
    data,        \* self.data: the rows left after loadMapData, in file order
    threshold,   \* config["group_threshold"]
    group_id,    \* the group_id column: index label -> group, NoGroup = NaN
    visited,     \* _groupLocations: visited
    next_id,     \* _groupLocations: the local counter group_id
    gi,          \* _groupLocations: position of the outer loop in data
    gpc,         \* where the Map is: "loaded", "grouping", "grouped"
    \* ---- database server and migration runner (tools/database.py) ----
    db,          \* the committed state of the project database
    tx,          \* per process: the uncommitted changes of its transaction
    lockHolder,  \* who holds ACCESS EXCLUSIVE on schema_version (NoProc: free)
    conn,        \* per process: the local variable conn
    pc,          \* per process: position in the running call
    op,          \* per process: the arguments and locals of the running call
    err,         \* per process: the exception raised inside the call
    ret,         \* per process: what the caller gets (a value or an exception)
    pre,         \* per process: db as it was when the call started
    allOk,       \* no createDatabase/upgradeDatabase call has failed so far
    calls,       \* the number of createDatabase/upgradeDatabase calls so far
    procs,       \* the processes that run
    \* ---- loadDataFromCSV (examples/example_load_data.py) ----
    load,        \* per process: the frame of loadDataFromCSV
    store,       \* the committed marker and place tables
    work,        \* per process: the tables as its open transaction has them
    nrows,       \* the CSV rows read by the loads so far
    \* ---- Map.loadMapData and the worker pool (pymapify.py) ----
    raw,         \* the rows of the CSV file as read_csv returns them
    futures,     \* _processData: futures, as the index labels submitted
    task,        \* per index label: the task _processRow(index, row)
    outcome,     \* what loadMapData gave its caller: "none" while it runs
    config,      \* env.config["pymapify"], as far as _processRow reads it
    \* ---- Map.plotMap after _groupLocations (pymapify.py) ----
    plot         \* the arguments, locals and calls of plotMap

mapVars == <<data, threshold, group_id, visited, next_id, gi, gpc>>
dbVars == <<db, tx, lockHolder, conn, pc, op, err, ret, pre, allOk, calls, procs>>
poolVars == <<raw, futures, task, outcome, config>>
plotVars == <<plot>>
loadVars == <<load, store, work, nrows>>
vars == <<data, threshold, group_id, visited, next_id, gi, gpc,
          db, tx, lockHolder, conn, pc, op, err, ret, pre, allOk, calls, procs,
          load, store, work, nrows, raw, futures, task, outcome, config, plot>>

(***************************************************************************)
(* Helpers.                                                                *)
(***************************************************************************)
Abs(x) == IF x < 0 THEN -x ELSE x

MaxOf(S) == CHOOSE x \in S : \A y \in S : y <= x

MinOf(S) == CHOOSE x \in S : \A y \in S : x <= y

(***************************************************************************)
(* Map: the enriched records and Map._groupLocations.                      *)
(***************************************************************************)
\* NaN in the group_id column
NoGroup == -1

\* NaN in a string column
NaN == "NaN"

Labels == 0 .. (MaxRows - 1)

\* the rows with index labels S and coordinates f, in increasing label order
\* (read_csv numbers the rows 0, 1, ...; dropna keeps order and labels)
RECURSIVE RowsOf(_, _)
RowsOf(S, f) ==
    IF S = {} THEN << >>
    ELSE LET i == MinOf(S)
         IN  <<[index |-> i, latitude |-> f[i][1], longitude |-> f[i][2],
                    place_name |-> "Unknown", open_time |-> NaN,
                    close_time |-> NaN]>>
             \o RowsOf(S \ {i}, f)

DataSets ==
    UNION { { RowsOf(S, f) : f \in [S -> (0 .. MaxLat) \X (0 .. MaxLon)] }
            : S \in (SUBSET Labels) \ {{}} }

IndexOf(d) == { d[k].index : k \in 1 .. Len(d) }

\* geodesic(a, b).km, on the grid: the taxicab metric stands for the geodesic
geodesic(a, b) == Abs(a.latitude - b.latitude) + Abs(a.longitude - b.longitude)

\* the inner loop joining at distance <= threshold (line 118 with <=)
RECURSIVE InnerLoopInclusive(_, _, _, _, _, _)
InnerLoopInclusive(d, t, row, g, k, st) ==
    IF k > Len(d) THEN st
    ELSE LET i == d[k].index
         IN  IF i \in st.visited
             THEN InnerLoopInclusive(d, t, row, g, k + 1, st)
             ELSE IF geodesic(row, d[k]) <= t
                  THEN InnerLoopInclusive(d, t, row, g, k + 1,
                           [group_id |-> [st.group_id EXCEPT ![i] = g],
                            visited  |-> st.visited \cup {i}])
                  ELSE InnerLoopInclusive(d, t, row, g, k + 1, st)

\* the inner loop measuring from the row that joined last, not from the seed
RECURSIVE InnerLoopChained(_, _, _, _, _, _)
InnerLoopChained(d, t, row, g, k, st) ==
    IF k > Len(d) THEN st
    ELSE LET i == d[k].index
         IN  IF i \in st.visited
             THEN InnerLoopChained(d, t, row, g, k + 1, st)
             ELSE IF geodesic(row, d[k]) < t
                  THEN InnerLoopChained(d, t, d[k], g, k + 1,
                           [group_id |-> [st.group_id EXCEPT ![i] = g],
                            visited  |-> st.visited \cup {i}])
                  ELSE InnerLoopChained(d, t, row, g, k + 1, st)

\* the inner loop without its test of visited (lines 112-113 left out)
RECURSIVE InnerLoopRevisit(_, _, _, _, _, _)
InnerLoopRevisit(d, t, row, g, k, st) ==
    IF k > Len(d) THEN st
    ELSE LET i == d[k].index
         IN  IF geodesic(row, d[k]) < t
             THEN InnerLoopRevisit(d, t, row, g, k + 1,
                      [group_id |-> [st.group_id EXCEPT ![i] = g],
                       visited  |-> st.visited \cup {i}])
             ELSE InnerLoopRevisit(d, t, row, g, k + 1, st)

\* the inner loop of _groupLocations (lines 111-120) from position k on:
\* st = [group_id, visited]; row is the seed, g its group
RECURSIVE InnerLoop(_, _, _, _, _, _)
InnerLoop(d, t, row, g, k, st) ==
    IF k > Len(d) THEN st
    ELSE LET i == d[k].index
         IN  IF i \in st.visited
             THEN InnerLoop(d, t, row, g, k + 1, st)
             ELSE IF geodesic(row, d[k]) < t
                  THEN InnerLoop(d, t, row, g, k + 1,
                           [group_id |-> [st.group_id EXCEPT ![i] = g],
                            visited  |-> st.visited \cup {i}])
                  ELSE InnerLoop(d, t, row, g, k + 1, st)

\* lines 97-100: visited = set(); group_id = 0; the column is all NaN
GroupStart ==
    /\ gpc = "loaded"
    /\ visited' = {}
    /\ next_id' = 0
    /\ group_id' = [i \in IndexOf(data) |-> NoGroup]
    /\ gi' = 1
    /\ gpc' = "grouping"
    /\ UNCHANGED <<data, threshold>>
    /\ UNCHANGED <<dbVars, poolVars, plotVars, loadVars>>

\* lines 102-104: the row is visited already, continue
GroupSkip ==
    /\ gpc = "grouping"
    /\ gi <= Len(data)
    /\ data[gi].index \in visited
    /\ gi' = gi + 1
    /\ UNCHANGED <<data, threshold, group_id, visited, next_id, gpc>>
    /\ UNCHANGED <<dbVars, poolVars, plotVars, loadVars>>

\* lines 106-122: the row seeds a new group and collects the rows near it
GroupSeed ==
    /\ gpc = "grouping"
    /\ gi <= Len(data)
    /\ data[gi].index \notin visited
    /\ LET index == data[gi].index
           st0 == [group_id |-> [group_id EXCEPT ![index] = next_id],
                   visited  |-> visited \cup {index}]
           st1 == InnerLoop(data, threshold, data[gi], next_id, 1, st0)
       IN  /\ group_id' = st1.group_id
           /\ visited' = st1.visited
    /\ next_id' = next_id + 1
    /\ gi' = gi + 1
    /\ UNCHANGED <<data, threshold, gpc>>
    /\ UNCHANGED <<dbVars, poolVars, plotVars, loadVars>>

\* the outer loop is exhausted
GroupEnd ==
    /\ gpc = "grouping"
    /\ gi > Len(data)
    /\ gpc' = "grouped"
    /\ UNCHANGED <<data, threshold, group_id, visited, next_id, gi>>
    /\ UNCHANGED <<dbVars, poolVars, plotVars, loadVars>>

\* the outer loop of _groupLocations (lines 102-122) from position k on
RECURSIVE OuterLoop(_, _, _, _, _)
OuterLoop(d, t, k, g, st) ==
    IF k > Len(d) THEN st
    ELSE LET index == d[k].index
         IN  IF index \in st.visited
             THEN OuterLoop(d, t, k + 1, g, st)
             ELSE OuterLoop(d, t, k + 1, g + 1,
                      InnerLoop(d, t, d[k], g, 1,
                          [group_id |-> [st.group_id EXCEPT ![index] = g],
                           visited  |-> st.visited \cup {index}]))

\* _groupLocations(threshold) on the rows d: the group_id column it leaves
_groupLocations(d, t) ==
    OuterLoop(d, t, 1, 0,
        [group_id |-> [i \in IndexOf(d) |-> NoGroup], visited |-> {}]).group_id

(***************************************************************************)
(* The database server, as psycopg2 and PostgreSQL present it to            *)
(* tools/database.py.                                                      *)
(***************************************************************************)
AllProcs == {"p1", "p2"}

NoProc == "none"

Versions == 1 .. MaxVersion

\* None, as a schema version
NoVersion == 0

\* version = -1: the latest available version
Latest == -1

\* the subclasses of DatabaseError (lines 12-30)
DatabaseErrorKinds ==
    {"DatabaseError", "DatabaseNotFoundError", "SchemaFileNotFoundError",
     "SchemaApplicationError", "DataPopulationError"}

\* no database object; a database holds the schema_version table (or not),
\* its rows, and the schema and data changes applied to it
EmptyDb == [exists |-> FALSE, table |-> FALSE, ledger |-> {}, changes |-> {}]

\* the marker and place tables without a row; a marker's id is its position
\* (SERIAL: the ids grow in the order of the inserts)
EmptyStore == [marker |-> << >>, place |-> {}]

\* no loadDataFromCSV is running.  pc: "create" while the createDatabase it
\* called runs; conn: the local conn is set; created: the database was
\* created by this call; expected: the version the check or the creation
\* has established; written: the rows written
NoLoad == [pc |-> "off", target_version |-> NoVersion, conn |-> FALSE,
           created |-> FALSE, expected |-> NoVersion, written |-> 0]

\* a transaction without changes.  auto: COMMIT or ROLLBACK went out through
\* cursor.execute, so psycopg2 still takes the connection to be in a
\* transaction and sends no BEGIN: every statement commits on its own, until
\* conn.commit() or conn.rollback()
NoTx == [table |-> FALSE, rows |-> {}, changes |-> {}, auto |-> FALSE]

RawTx == [NoTx EXCEPT !.auto = TRUE]

NoOp == [name |-> "none", from_version |-> NoVersion, to_version |-> NoVersion,
         version |-> NoVersion, exists |-> FALSE, dir |-> FALSE, files |-> {},
         script_applied |-> FALSE, value |-> NoVersion]

\* what the transaction of p reads: the committed state and its own changes
View(p) == [exists  |-> db.exists,
            table   |-> db.table \/ tx[p].table,
            ledger  |-> db.ledger \cup tx[p].rows,
            changes |-> db.changes \cup tx[p].changes]

\* DEFAULT CURRENT_TIMESTAMP of applied_at: later than every row written so far
Now ==
    LET stamps == { r.applied_at :
                    r \in db.ledger \cup UNION { tx[q].rows : q \in AllProcs } }
    IN  IF stamps = {} THEN 1 ELSE MaxOf(stamps) + 1

\* sessions connected to the project database
Sessions == { q \in AllProcs : conn[q] = "target" }

\* COMMIT / conn.commit(): the changes of p become the committed state
Committed(p) == [exists  |-> db.exists,
                 table   |-> db.table \/ tx[p].table,
                 ledger  |-> db.ledger \cup tx[p].rows,
                 changes |-> db.changes \cup tx[p].changes]

\* db as a call finds it, kept for the properties of one process's calls
Snapshot == IF Cardinality(procs) = 1 THEN db ELSE EmptyDb

\* the end of a transaction releases the table lock
Released(p) == IF lockHolder = p THEN NoProc ELSE lockHolder

(***************************************************************************)
(* tools/database.py: the functions without a transaction of their own.    *)
(***************************************************************************)
\* getSchemaVersion (lines 346-367): SELECT version FROM schema_version
\* ORDER BY applied_at DESC LIMIT 1; any exception becomes DatabaseError
getSchemaVersion(v) ==
    IF ~v.table
    THEN [exc |-> "DatabaseError", value |-> NoVersion]
    ELSE IF v.ledger = {}
         THEN [exc |-> "none", value |-> NoVersion]
         ELSE [exc |-> "none",
               value |-> (CHOOSE r \in v.ledger :
                            \A s \in v.ledger : s.applied_at <= r.applied_at).version]

\* getLatestAvailableVersion (lines 78-91): files is the set of N with a
\* vN_create_schema.sql in the directory
getLatestAvailableVersion(files) ==
    IF files = {}
    THEN [exc |-> "ValueError", value |-> NoVersion]
    ELSE [exc |-> "none", value |-> MaxOf(files)]

\* enforceSchemaVersion accepting a database newer than the target
\* (line 52 with < for !=)
enforceSchemaVersionAtLeast(v, dir, files, version) ==
    LET got == getSchemaVersion(v)
        latest == getLatestAvailableVersion(files)
    IN  IF got.exc # "none" THEN got.exc
        ELSE IF version = Latest /\ ~dir THEN "ValueError"
        ELSE IF version = Latest /\ latest.exc # "none" THEN latest.exc
        ELSE LET target == IF version = Latest THEN latest.value ELSE version
             IN  IF got.value < target THEN "DatabaseError" ELSE "none"

\* enforceSchemaVersion (lines 44-54): the exception raised, or "none"
enforceSchemaVersion(v, dir, files, version) ==
    LET got == getSchemaVersion(v)
        latest == getLatestAvailableVersion(files)
    IN  IF got.exc # "none" THEN got.exc
        ELSE IF version = Latest /\ ~dir THEN "ValueError"
        ELSE IF version = Latest /\ latest.exc # "none" THEN latest.exc
        ELSE LET target == IF version = Latest THEN latest.value ELSE version
             IN  IF got.value # target THEN "DatabaseError" ELSE "none"

\* dropDatabase (lines 200-221): DROP DATABASE IF EXISTS from a new session on
\* 'postgres'; it fails while a session is connected to the database, and
\* every failure is logged and swallowed
dropDatabase(d, sessions, reachable) ==
    IF reachable /\ d.exists /\ sessions = {} THEN EmptyDb ELSE d

(***************************************************************************)
(* createDatabase (lines 224-291).                                         *)
(***************************************************************************)
\* a caller starts createDatabase(env, version); version None is NoVersion
CallCreate(p, version) ==
    /\ p \in procs
    /\ pc[p] = "idle"
    /\ calls < MaxCalls
    /\ calls' = calls + 1
    /\ pc' = [pc EXCEPT ![p] = "c_connect"]
    /\ op' = [op EXCEPT ![p] = [NoOp EXCEPT !.name = "createDatabase",
                                           !.version = version]]
    /\ pre' = [pre EXCEPT ![p] = Snapshot]
    /\ UNCHANGED <<db, tx, lockHolder, conn, err, ret, allOk, procs>>
    /\ UNCHANGED <<mapVars, poolVars, plotVars, loadVars>>

\* lines 233-241: connect to 'postgres' and look the database up
CreateConnect(p) ==
    /\ pc[p] = "c_connect"
    /\ \E reachable \in BOOLEAN :
         IF reachable
         THEN /\ conn' = [conn EXCEPT ![p] = "postgres"]
              /\ op' = [op EXCEPT ![p].exists = db.exists]
              /\ pc' = [pc EXCEPT ![p] = "c_createdb"]
              /\ err' = err
         ELSE /\ err' = [err EXCEPT ![p] = "OperationalError"]
              /\ pc' = [pc EXCEPT ![p] = "c_except"]
              /\ UNCHANGED <<conn, op>>
    /\ UNCHANGED <<db, tx, lockHolder, ret, pre, allOk, calls, procs>>
    /\ UNCHANGED <<mapVars, poolVars, plotVars, loadVars>>

\* lines 242-246: CREATE DATABASE unless the look-up found it
CreateDb(p) ==
    /\ pc[p] = "c_createdb"
    /\ \E sql \in {"ok", "error"} :
         IF op[p].exists
         THEN /\ sql = "ok"
              /\ pc' = [pc EXCEPT ![p] = "c_reconnect"]
              /\ UNCHANGED <<db, err>>
         ELSE IF sql = "ok" /\ ~db.exists
              THEN /\ db' = [EmptyDb EXCEPT !.exists = TRUE]
                   /\ pc' = [pc EXCEPT ![p] = "c_reconnect"]
                   /\ err' = err
              ELSE /\ err' = [err EXCEPT ![p] = "psycopg2.Error"]
                   /\ pc' = [pc EXCEPT ![p] = "c_except"]
                   /\ db' = db
    /\ UNCHANGED <<tx, lockHolder, conn, op, ret, pre, allOk, calls, procs>>
    /\ UNCHANGED <<mapVars, poolVars, plotVars, loadVars>>

\* lines 248-253: close the session on 'postgres', connect to the database
CreateReconnect(p) ==
    /\ pc[p] = "c_reconnect"
    /\ \E reachable \in BOOLEAN :
         IF reachable /\ db.exists
         THEN /\ conn' = [conn EXCEPT ![p] = "target"]
              /\ pc' = [pc EXCEPT ![p] = "c_schema"]
              /\ err' = err
         ELSE /\ conn' = [conn EXCEPT ![p] = "closed"]
              /\ err' = [err EXCEPT ![p] = "OperationalError"]
              /\ pc' = [pc EXCEPT ![p] = "c_except"]
    /\ UNCHANGED <<db, tx, lockHolder, op, ret, pre, allOk, calls, procs>>
    /\ UNCHANGED <<mapVars, poolVars, plotVars, loadVars>>

\* what vN_create_schema.sql does: it creates the tables, schema_version
\* among them, and records version N in it
CreateSchemaFile(t, version, stamp) ==
    [table   |-> TRUE,
     rows    |-> t.rows \cup {[version |-> version, applied_at |-> stamp]},
     changes |-> t.changes \cup {[kind |-> "schema", version |-> version]},
     auto    |-> t.auto]

\* what vN_to_vM_upgrade_schema.sql does: it brings the schema objects to
\* those of version M
UpgradeSchemaFile(t, from_version, to_version) ==
    [t EXCEPT !.changes = @ \cup {[kind |-> "schema", version |-> to_version]}]

\* what the populate function of a population script does: the data of the
\* version it populates
PopulateScript(t, from_version, to_version) ==
    [t EXCEPT !.changes = @ \cup {[kind |-> "data", version |-> to_version]}]

\* applySchemaVersion (lines 121-145): the exception raised, or "none";
\* file: the schema file is there; sql: what executing it and
\* injectAuditColumns do
applySchemaVersion(file, sql) ==
    IF ~file THEN "SchemaFileNotFoundError"
    ELSE IF sql # "ok" THEN "SchemaApplicationError"
    ELSE "none"

\* lines 255-259: getLatestAvailableVersion if version is None, then
\* applySchemaVersion(database_dir, cur, 0, version)
CreateSchema(p) ==
    /\ pc[p] = "c_schema"
    /\ \E files \in SUBSET Versions, sql \in {"ok", "error"} :
         LET latest == getLatestAvailableVersion(files)
             version == IF op[p].version = NoVersion
                        THEN latest.value ELSE op[p].version
             \* CREATE TABLE fails on a table that is there, committed or not
             clash == db.table \/ \E q \in AllProcs : tx[q].table
             raised == IF op[p].version = NoVersion /\ latest.exc # "none"
                       THEN latest.exc
                       ELSE applySchemaVersion(version \in files,
                                IF clash THEN "error" ELSE sql)
         IN  IF raised = "none"
             THEN /\ tx' = [tx EXCEPT ![p] = CreateSchemaFile(@, version, Now)]
                  /\ op' = [op EXCEPT ![p].version = version]
                  /\ pc' = [pc EXCEPT ![p] = "c_lock"]
                  /\ err' = err
             ELSE /\ err' = [err EXCEPT ![p] = raised]
                  /\ pc' = [pc EXCEPT ![p] = "c_except"]
                  /\ UNCHANGED <<tx, op>>
    /\ UNCHANGED <<db, lockHolder, conn, ret, pre, allOk, calls, procs>>
    /\ UNCHANGED <<mapVars, poolVars, plotVars, loadVars>>

\* lines 261-264: BEGIN (a transaction is open already: a warning) and
\* LOCK TABLE schema_version IN ACCESS EXCLUSIVE MODE, which waits
CreateLock(p) ==
    /\ pc[p] = "c_lock"
    /\ lockHolder \in {NoProc, p}
    /\ lockHolder' = p
    /\ pc' = [pc EXCEPT ![p] = "c_populate"]
    /\ UNCHANGED <<db, tx, conn, op, err, ret, pre, allOk, calls, procs>>
    /\ UNCHANGED <<mapVars, poolVars, plotVars, loadVars>>

\* runDataPopulationScript (lines 148-197).  env.cur is the cursor of the
\* caller's connection (_connect, lines 38-40): no script, or BEGIN (a warning
\* when a transaction is open), populate, then COMMIT or ROLLBACK of the
\* transaction the caller is in.  The new [db, tx, lockHolder, raised,
\* applied] for script in {"absent", "ok", "fails"}.
runDataPopulationScript(p, script, from_version, to_version) ==
    IF script = "absent"
    THEN [db |-> db, tx |-> tx, lockHolder |-> lockHolder,
          raised |-> "none", applied |-> FALSE]
    ELSE IF script = "ok"
    THEN [db |-> [exists  |-> db.exists,
                  table   |-> db.table \/ tx[p].table,
                  ledger  |-> db.ledger \cup tx[p].rows,
                  changes |-> db.changes
                              \cup PopulateScript(tx[p], from_version,
                                                  to_version).changes],
          tx |-> [tx EXCEPT ![p] = RawTx],
          lockHolder |-> Released(p),
          raised |-> "none", applied |-> TRUE]
    ELSE [db |-> db,
          tx |-> [tx EXCEPT ![p] = RawTx],
          lockHolder |-> Released(p),
          raised |-> "DataPopulationError", applied |-> FALSE]

\* line 267: script_applied = runDataPopulationScript(database_dir, 0, version, env)
CreatePopulate(p) ==
    /\ pc[p] = "c_populate"
    /\ \E script \in {"absent", "ok", "fails"} :
         LET r == runDataPopulationScript(p, script, 0, op[p].version)
         IN  /\ db' = r.db
             /\ tx' = r.tx
             /\ lockHolder' = r.lockHolder
             /\ op' = [op EXCEPT ![p].script_applied = r.applied]
             /\ IF r.raised = "none"
                THEN /\ pc' = [pc EXCEPT ![p] = "c_commit"]
                     /\ err' = err
                ELSE /\ pc' = [pc EXCEPT ![p] = "c_except"]
                     /\ err' = [err EXCEPT ![p] = r.raised]
    /\ UNCHANGED <<conn, ret, pre, allOk, calls, procs>>
    /\ UNCHANGED <<mapVars, poolVars, plotVars, loadVars>>

\* lines 269-273 and 288-291: conn.commit(), then close the connection
CreateCommit(p) ==
    /\ pc[p] = "c_commit"
    /\ db' = Committed(p)
    /\ tx' = [tx EXCEPT ![p] = NoTx]
    /\ lockHolder' = Released(p)
    /\ conn' = [conn EXCEPT ![p] = "closed"]
    /\ ret' = [ret EXCEPT ![p] = "ok"]
    /\ pc' = [pc EXCEPT ![p] = "done"]
    /\ UNCHANGED <<op, err, pre, allOk, calls, procs>>
    /\ UNCHANGED <<mapVars, poolVars, plotVars, loadVars>>

\* what the except clauses of createDatabase raise (lines 275-287): a
\* DatabaseError as it is, anything else as DatabaseError
CreateRaises(e) == IF e \in DatabaseErrorKinds THEN e ELSE "DatabaseError"

\* lines 275-291: the except clauses and finally.  conn.rollback() on the
\* closed connection raises InterfaceError out of the handler; otherwise
\* rollback, dropDatabase(params) with conn still open, and raise
CreateExcept(p) ==
    /\ pc[p] = "c_except"
    /\ \E reachable \in BOOLEAN :
         IF conn[p] = "closed"
         THEN /\ ret' = [ret EXCEPT ![p] = "InterfaceError"]
              /\ UNCHANGED <<db, tx, lockHolder, conn>>
         ELSE /\ tx' = [tx EXCEPT ![p] = NoTx]
              /\ lockHolder' = Released(p)
              /\ db' = dropDatabase(db, Sessions, reachable)
              /\ ret' = [ret EXCEPT ![p] = CreateRaises(err[p])]
              /\ conn' = [conn EXCEPT ![p] = IF @ = "none" THEN "none" ELSE "closed"]
    /\ pc' = [pc EXCEPT ![p] = "done"]
    /\ allOk' = FALSE
    /\ store' = IF db'.exists THEN store ELSE EmptyStore
    /\ UNCHANGED <<op, err, pre, calls, procs>>
    /\ UNCHANGED <<load, work, nrows>>
    /\ UNCHANGED <<mapVars, poolVars, plotVars>>

(***************************************************************************)
(* upgradeDatabase (lines 294-343).                                        *)
(***************************************************************************)
\* a caller starts upgradeDatabase(env, from_version, to_version)
CallUpgrade(p, from_version, to_version) ==
    /\ p \in procs
    /\ pc[p] = "idle"
    /\ calls < MaxCalls
    /\ calls' = calls + 1
    /\ pc' = [pc EXCEPT ![p] = "u_connect"]
    /\ op' = [op EXCEPT ![p] = [NoOp EXCEPT !.name = "upgradeDatabase",
                                           !.from_version = from_version,
                                           !.to_version = to_version]]
    /\ pre' = [pre EXCEPT ![p] = Snapshot]
    /\ UNCHANGED <<db, tx, lockHolder, conn, err, ret, allOk, procs>>
    /\ UNCHANGED <<mapVars, poolVars, plotVars, loadVars>>

\* lines 303-305: connect to the project database
UpgradeConnect(p) ==
    /\ pc[p] = "u_connect"
    /\ \E reachable \in BOOLEAN :
         IF reachable /\ db.exists
         THEN /\ conn' = [conn EXCEPT ![p] = "target"]
              /\ pc' = [pc EXCEPT ![p] = "u_lock"]
              /\ err' = err
         ELSE /\ err' = [err EXCEPT ![p] = "OperationalError"]
              /\ pc' = [pc EXCEPT ![p] = "u_except"]
              /\ conn' = conn
    /\ UNCHANGED <<db, tx, lockHolder, op, ret, pre, allOk, calls, procs>>
    /\ UNCHANGED <<mapVars, poolVars, plotVars, loadVars>>

\* lines 307-310: BEGIN and LOCK TABLE schema_version IN ACCESS EXCLUSIVE MODE:
\* an error without the table, a wait while another transaction holds the lock
UpgradeLock(p) ==
    /\ pc[p] = "u_lock"
    /\ IF View(p).table
       THEN /\ lockHolder \in {NoProc, p}
            /\ lockHolder' = p
            /\ op' = [op EXCEPT ![p].version = op[p].from_version]
            /\ pc' = [pc EXCEPT ![p] = "u_loop"]
            /\ err' = err
       ELSE /\ err' = [err EXCEPT ![p] = "psycopg2.Error"]
            /\ pc' = [pc EXCEPT ![p] = "u_except"]
            /\ UNCHANGED <<lockHolder, op>>
    /\ UNCHANGED <<db, tx, conn, ret, pre, allOk, calls, procs>>
    /\ UNCHANGED <<mapVars, poolVars, plotVars, loadVars>>

\* the versions the loop of line 313 still has to visit
RangeLeft(version, to_version) == version < to_version

\* lines 313-316: the next version of range(from_version, to_version):
\* applySchemaVersion(database_dir, cur, version, version + 1)
UpgradeSchema(p) ==
    /\ pc[p] = "u_loop"
    /\ RangeLeft(op[p].version, op[p].to_version)
    /\ \E file \in BOOLEAN, sql \in {"ok", "error"} :
         LET raised == applySchemaVersion(file, sql)
             t == UpgradeSchemaFile(tx[p], op[p].version, op[p].version + 1)
         IN  IF raised = "none"
             THEN /\ IF tx[p].auto
                     THEN /\ db' = [db EXCEPT !.changes = @ \cup t.changes]
                          /\ tx' = tx
                     ELSE /\ tx' = [tx EXCEPT ![p] = t]
                          /\ db' = db
                  /\ pc' = [pc EXCEPT ![p] = "u_populate"]
                  /\ err' = err
             ELSE /\ err' = [err EXCEPT ![p] = raised]
                  /\ pc' = [pc EXCEPT ![p] = "u_except"]
                  /\ UNCHANGED <<db, tx>>
    /\ UNCHANGED <<lockHolder, conn, op, ret, pre, allOk, calls, procs>>
    /\ UNCHANGED <<mapVars, poolVars, plotVars, loadVars>>

\* lines 318-319: runDataPopulationScript(database_dir, version, version + 1, env)
UpgradePopulate(p) ==
    /\ pc[p] = "u_populate"
    /\ \E script \in {"absent", "ok", "fails"} :
         LET r == runDataPopulationScript(p, script, op[p].version,
                                          op[p].version + 1)
         IN  /\ db' = r.db
             /\ tx' = r.tx
             /\ lockHolder' = r.lockHolder
             /\ IF r.raised = "none"
                THEN /\ pc' = [pc EXCEPT ![p] = "u_loop"]
                     /\ op' = [op EXCEPT ![p].version = @ + 1]
                     /\ err' = err
                ELSE /\ pc' = [pc EXCEPT ![p] = "u_except"]
                     /\ err' = [err EXCEPT ![p] = r.raised]
                     /\ op' = op
    /\ UNCHANGED <<conn, ret, pre, allOk, calls, procs>>
    /\ UNCHANGED <<mapVars, poolVars, plotVars, loadVars>>

\* lines 321-327: INSERT INTO schema_version (version, description)
\* VALUES (to_version, ...) ON CONFLICT (version) DO NOTHING
InsertVersion(ledger, to_version, stamp) ==
    IF \E r \in ledger : r.version = to_version
    THEN {}
    ELSE {[version |-> to_version, applied_at |-> stamp]}

\* lines 321-332 and 340-343: the loop is over; record to_version, commit,
\* close the connection
UpgradeCommit(p) ==
    /\ pc[p] = "u_loop"
    /\ ~RangeLeft(op[p].version, op[p].to_version)
    /\ LET row == InsertVersion(View(p).ledger, op[p].to_version, Now)
       IN  db' = [Committed(p) EXCEPT !.ledger = @ \cup row]
    /\ tx' = [tx EXCEPT ![p] = NoTx]
    /\ lockHolder' = Released(p)
    /\ conn' = [conn EXCEPT ![p] = "closed"]
    /\ ret' = [ret EXCEPT ![p] = "ok"]
    /\ pc' = [pc EXCEPT ![p] = "done"]
    /\ UNCHANGED <<op, err, pre, allOk, calls, procs>>
    /\ UNCHANGED <<mapVars, poolVars, plotVars, loadVars>>

\* what the except clause of upgradeDatabase raises (line 339)
UpgradeRaises(e) == "DatabaseError"

\* lines 334-343: rollback if connected, raise DatabaseError, close
UpgradeExcept(p) ==
    /\ pc[p] = "u_except"
    /\ tx' = [tx EXCEPT ![p] = NoTx]
    /\ lockHolder' = Released(p)
    /\ conn' = [conn EXCEPT ![p] = IF @ = "none" THEN "none" ELSE "closed"]
    /\ ret' = [ret EXCEPT ![p] = UpgradeRaises(err[p])]
    /\ pc' = [pc EXCEPT ![p] = "done"]
    /\ allOk' = FALSE
    /\ UNCHANGED <<db, op, err, pre, calls, procs>>
    /\ UNCHANGED <<mapVars, poolVars, plotVars, loadVars>>

(***************************************************************************)
(* getSchemaVersion and enforceSchemaVersion, called on a cursor of the    *)
(* project database, and the return to the caller.                         *)
(***************************************************************************)
CallGetSchemaVersion(p) ==
    /\ p \in procs
    /\ pc[p] = "idle"
    /\ db.exists
    /\ LET got == getSchemaVersion(View(p))
       IN  /\ op' = [op EXCEPT ![p] = [NoOp EXCEPT !.name = "getSchemaVersion",
                                                  !.value = got.value]]
           /\ ret' = [ret EXCEPT ![p] = IF got.exc = "none" THEN "ok" ELSE got.exc]
    /\ pre' = [pre EXCEPT ![p] = Snapshot]
    /\ pc' = [pc EXCEPT ![p] = "done"]
    /\ UNCHANGED <<db, tx, lockHolder, conn, err, allOk, calls, procs>>
    /\ UNCHANGED <<mapVars, poolVars, plotVars, loadVars>>

\* dir: database_schema_dir is given; files: the N with a vN_create_schema.sql
CallEnforce(p, version, dir, files) ==
    /\ p \in procs
    /\ pc[p] = "idle"
    /\ db.exists
    /\ LET raised == enforceSchemaVersion(View(p), dir, files, version)
       IN  ret' = [ret EXCEPT ![p] = IF raised = "none" THEN "ok" ELSE raised]
    /\ op' = [op EXCEPT ![p] = [NoOp EXCEPT !.name = "enforceSchemaVersion",
                                           !.version = version,
                                           !.dir = dir, !.files = files]]
    /\ pre' = [pre EXCEPT ![p] = Snapshot]
    /\ pc' = [pc EXCEPT ![p] = "done"]
    /\ UNCHANGED <<db, tx, lockHolder, conn, err, allOk, calls, procs>>
    /\ UNCHANGED <<mapVars, poolVars, plotVars, loadVars>>

\* the call is over: the caller has the result and goes on
Return(p) ==
    /\ pc[p] = "done"
    /\ load[p].pc # "create"
    /\ pc' = [pc EXCEPT ![p] = "idle"]
    /\ op' = [op EXCEPT ![p] = NoOp]
    /\ err' = [err EXCEPT ![p] = "none"]
    /\ ret' = [ret EXCEPT ![p] = "none"]
    /\ pre' = [pre EXCEPT ![p] = EmptyDb]
    /\ conn' = [conn EXCEPT ![p] = "none"]
    /\ load' = [load EXCEPT ![p] = NoLoad]
    /\ UNCHANGED <<db, tx, lockHolder, allOk, calls, procs>>
    /\ UNCHANGED <<store, work, nrows>>
    /\ UNCHANGED <<mapVars, poolVars, plotVars>>

(***************************************************************************)
(* google_maps.py: a link is a URL, which has "@lat,lon" in it or not and  *)
(* a "/maps/place/<name>" segment or not.                                  *)
(***************************************************************************)
\* None, as a coordinate (and NaN in the latitude and longitude columns)
NoCoord == -1

(***************************************************************************)
(* Map.plotMap after _groupLocations (pymapify.py, lines 168-199).         *)
(***************************************************************************)
\* the zoom that "fit" stands for until fit_bounds is called (line 146)
FitZoom == 10

\* a focus size is a string or an integer
StrSize(value) == [type |-> "str", str |-> value, int |-> 0]

IntSize(value) == [type |-> "int", str |-> "", int |-> value]

\* the values of map_focus or config["focus_type"]
FocusTypes == {"first", "last", "centre", "middle"}

\* the values of map_size or config["focus_size"]
FocusSizes == {StrSize("fit"), StrSize("full"), IntSize(1), IntSize(2)}

\* plotMap has not chosen a focus yet.  step: what comes next ("size",
\* "create", "fit", "markers"), "raised" or "done"; location and zoom_start:
\* the locals, and the arguments of folium.Map once map is set; fit_bounds:
\* the calls of self.map.fit_bounds; markers: the folium.Marker objects
\* added; raised: the exception that ended plotMap
NoPlot == [step |-> "off", focus_type |-> "", focus_size |-> IntSize(0),
           location |-> << >>, zoom_start |-> 0, map |-> FALSE,
           fit_bounds |-> << >>, markers |-> << >>, raised |-> "none"]

RECURSIVE Gcd(_, _)
Gcd(a, b) == IF b = 0 THEN a ELSE Gcd(b, a % b)

\* the number n / d, in lowest terms (d > 0, n >= 0)
Frac(n, d) == <<n \div Gcd(n, d), d \div Gcd(n, d)>>

\* sum(data[column])
RECURSIVE SumColumn(_, _, _)
SumColumn(d, column, k) ==
    IF k > Len(d) THEN 0 ELSE d[k][column] + SumColumn(d, column, k + 1)

Column(d, column) == { d[k][column] : k \in 1 .. Len(d) }

\* lines 124-127
_calculateMeanLocation(d) ==
    <<Frac(SumColumn(d, "latitude", 1), Len(d)),
      Frac(SumColumn(d, "longitude", 1), Len(d))>>

\* lines 129-141: data.at[0, ...] takes the row with index label 0 and raises
\* KeyError when there is none; data.iloc[-1] takes the last row
_getFocusLocation(d, focus_type) ==
    IF focus_type \notin {"first", "last", "centre"}
    THEN [exc |-> "AssertionError", value |-> << >>]
    ELSE IF focus_type = "first"
    THEN IF 0 \in IndexOf(d)
         THEN LET row == d[CHOOSE k \in 1 .. Len(d) : d[k].index = 0]
              IN  [exc |-> "none",
                   value |-> <<Frac(row.latitude, 1), Frac(row.longitude, 1)>>]
         ELSE [exc |-> "KeyError", value |-> << >>]
    ELSE IF focus_type = "last"
    THEN [exc |-> "none",
          value |-> <<Frac(d[Len(d)].latitude, 1), Frac(d[Len(d)].longitude, 1)>>]
    ELSE [exc |-> "none", value |-> _calculateMeanLocation(d)]

\* lines 143-148
_getFocusSize(focus_size) ==
    LET size == IF focus_size = StrSize("fit") THEN IntSize(FitZoom) ELSE focus_size
    IN  IF size.type = "int" /\ size.int > 1
        THEN [exc |-> "none", value |-> size.int]
        ELSE [exc |-> "AssertionError", value |-> 0]

\* lines 150-156
_calculateBounds(d) ==
    <<<<MinOf(Column(d, "latitude")), MinOf(Column(d, "longitude"))>>,
      <<MaxOf(Column(d, "latitude")), MaxOf(Column(d, "longitude"))>>>>

\* the rows of d that f puts in group g, in the order of d (line 178:
\* self.data.groupby('group_id'))
GroupRows(d, f, g) == SelectSeq(d, LAMBDA row : f[row.index] = g)

\* the popup of a row with the hours whenever they are not both missing
popup_htmlEither(row) ==
    IF row.open_time # NaN \/ row.close_time # NaN
    THEN "<span><b>" \o row.place_name \o "</b> "
             \o row.open_time \o "-" \o row.close_time \o "</span>"
    ELSE "<span><b>" \o row.place_name \o "</b></span>"

\* lines 187-189: the popup of one row ("-" stands for the en dash)
popup_html(row) ==
    IF row.open_time # NaN /\ row.close_time # NaN
    THEN "<span><b>" \o row.place_name \o "</b> "
             \o row.open_time \o "-" \o row.close_time \o "</span>"
    ELSE "<span><b>" \o row.place_name \o "</b></span>"

\* separator.join(strings)
RECURSIVE join(_, _)
join(separator, strings) ==
    IF strings = << >> THEN ""
    ELSE IF Len(strings) = 1 THEN strings[1]
    ELSE strings[1] \o separator \o join(separator, Tail(strings))

\* lines 185-191: the popups of the rows of a group, merged
merged_popup_html(group) ==
    join("<br><br>", [k \in 1 .. Len(group) |-> popup_html(group[k])])

\* group.iloc[-1]: the last row of group g
LastRow(d, f, g) ==
    d[MaxOf({ k \in 1 .. Len(d) : f[d[k].index] = g })]

\* group.iloc[0] of group g of data.groupby('group_id')
FirstRow(d, f, g) ==
    d[MinOf({ k \in 1 .. Len(d) : f[d[k].index] = g })]

\* line 168
PlotFocus(focus_type) ==
    /\ gpc = "grouped"
    /\ plot.step = "off"
    /\ LET r == _getFocusLocation(data, focus_type)
       IN  plot' = [plot EXCEPT !.focus_type = focus_type,
                                !.location = r.value,
                                !.raised = r.exc,
                                !.step = IF r.exc = "none" THEN "size" ELSE "raised"]
    /\ UNCHANGED <<mapVars, dbVars, poolVars, loadVars>>

\* line 169
PlotSize(focus_size) ==
    /\ plot.step = "size"
    /\ LET r == _getFocusSize(focus_size)
       IN  plot' = [plot EXCEPT !.focus_size = focus_size,
                                !.zoom_start = r.value,
                                !.raised = r.exc,
                                !.step = IF r.exc = "none" THEN "create" ELSE "raised"]
    /\ UNCHANGED <<mapVars, dbVars, poolVars, loadVars>>

\* lines 170 and 173: folium.Map(location, zoom_start), and the test for "fit"
PlotCreate ==
    /\ plot.step = "create"
    /\ plot' = [plot EXCEPT !.map = TRUE,
                            !.step = IF plot.focus_size = StrSize("fit")
                                     THEN "fit" ELSE "markers"]
    /\ UNCHANGED <<mapVars, dbVars, poolVars, loadVars>>

\* lines 174-175
PlotFit ==
    /\ plot.step = "fit"
    /\ plot' = [plot EXCEPT !.fit_bounds = Append(@, _calculateBounds(data)),
                            !.step = "markers"]
    /\ UNCHANGED <<mapVars, dbVars, poolVars, loadVars>>

\* lines 178-199: one folium.Marker per group, in the order of the group ids,
\* at the location of the first row of the group
PlotMarkers ==
    /\ plot.step = "markers"
    /\ plot' = [plot EXCEPT
           !.markers = [m \in 1 .. next_id |->
                           [latitude  |-> FirstRow(data, group_id, m - 1).latitude,
                            longitude |-> FirstRow(data, group_id, m - 1).longitude,
                            popup     |-> merged_popup_html(
                                              GroupRows(data, group_id, m - 1))]],
           !.step = "done"]
    /\ UNCHANGED <<mapVars, dbVars, poolVars, loadVars>>

\* a missing link (NaN in the link column)
NoLink == [latitude |-> NoCoord, longitude |-> NoCoord, place |-> "NaN"]

\* extractCoordinates (lines 11-18): (None, None) without "@lat,lon"
extractCoordinates(full_url) ==
    IF full_url.latitude # NoCoord /\ full_url.longitude # NoCoord
    THEN <<full_url.latitude, full_url.longitude>>
    ELSE <<NoCoord, NoCoord>>

\* extractPlaceName (lines 21-28): "" without "/maps/place/<name>"
extractPlaceName(full_url) == full_url.place

(***************************************************************************)
(* Map.loadMapData, Map._processData and Map._processRow (pymapify.py,     *)
(* lines 50-93): the rows are enriched by the tasks of a thread pool.      *)
(***************************************************************************)
\* ThreadPoolExecutor(max_workers=10)
max_workers == 10

\* the links of the file: with coordinates and a place name, or with neither
UrlWith == [latitude |-> 1, longitude |-> 0, place |-> "a"]

UrlWithout == [latitude |-> NoCoord, longitude |-> NoCoord, place |-> ""]

\* a link and the latitude and longitude columns of its row
PoolCoordinates ==
    {[link |-> UrlWith,    latitude |-> NoCoord, longitude |-> NoCoord],
     [link |-> UrlWith,    latitude |-> 0,       longitude |-> 0],
     [link |-> UrlWithout, latitude |-> NoCoord, longitude |-> NoCoord],
     [link |-> UrlWithout, latitude |-> 0,       longitude |-> NoCoord],
     [link |-> UrlWithout, latitude |-> 0,       longitude |-> 0]}

\* the rows read_csv can return: the optional columns are NaN where the file
\* has no value; a row without a link has nothing that is read
PoolRows ==
    { [link          |-> c.link,
       latitude      |-> c.latitude,
       longitude     |-> c.longitude,
       place_name    |-> n,
       marker_colour |-> m,
       open_time     |-> NaN,
       close_time    |-> NaN] :
      c \in PoolCoordinates, n \in {NaN}, m \in {NaN, "red"} }
    \cup {[link |-> NoLink, latitude |-> NoCoord, longitude |-> NoCoord,
           place_name |-> NaN, marker_colour |-> NaN,
           open_time |-> NaN, close_time |-> NaN]}

\* the files: up to MaxPoolRows rows
PoolFiles == UNION { [1 .. n -> PoolRows] : n \in 0 .. MaxPoolRows }

\* the configurations: with a default marker_colour or without the key
PoolConfigs == [marker_colour : {"blue", "KeyError"}]

\* the rows k .. Len(file) of the file whose link is not NaN, with their
\* index labels (lines 80-87: read_csv numbers the rows from 0, dropna keeps
\* the labels)
RECURSIVE DropNaLink(_, _)
DropNaLink(file, k) ==
    IF k > Len(file) THEN << >>
    ELSE IF file[k].link = NoLink
         THEN DropNaLink(file, k + 1)
         ELSE <<[index         |-> k - 1,
                 link          |-> file[k].link,
                 latitude      |-> file[k].latitude,
                 longitude     |-> file[k].longitude,
                 place_name    |-> file[k].place_name,
                 marker_colour |-> file[k].marker_colour,
                 open_time     |-> file[k].open_time,
                 close_time    |-> file[k].close_time]>>
              \o DropNaLink(file, k + 1)

\* line 76: dropna(subset=['latitude', 'longitude']) from position k on
RECURSIVE DropNaCoordinates(_, _)
DropNaCoordinates(d, k) ==
    IF k > Len(d) THEN << >>
    ELSE IF d[k].latitude = NoCoord \/ d[k].longitude = NoCoord
         THEN DropNaCoordinates(d, k + 1)
         ELSE <<d[k]>> \o DropNaCoordinates(d, k + 1)

\* self.data.at[index, column] = value, by position instead of by label
SetAtPosition(d, index, column, value) ==
    [k \in 1 .. Len(d) |->
        IF k = index + 1
        THEN [c \in DOMAIN d[k] |-> IF c = column THEN value ELSE d[k][c]]
        ELSE d[k]]

\* self.data.at[index, column] = value
SetAt(d, index, column, value) ==
    [k \in 1 .. Len(d) |->
        IF d[k].index = index
        THEN [c \in DOMAIN d[k] |-> IF c = column THEN value ELSE d[k][c]]
        ELSE d[k]]

\* only a missing place_name counts as blank
BlankMissing(place_name) == place_name = NaN

\* line 59: not isinstance(place_name, str) or not place_name.strip()
Blank(place_name) == place_name \in {NaN, "", " "}

\* lines 80-89: read the file, add the optional columns, drop the rows
\* without a link; then _processData starts the pool
LoadMapData ==
    /\ gpc = "csv"
    /\ data' = DropNaLink(raw, 1)
    /\ futures' = << >>
    /\ task' = << >>
    /\ gpc' = "submitting"
    /\ UNCHANGED <<threshold, group_id, visited, next_id, gi>>
    /\ UNCHANGED <<raw, outcome, config, plot>>
    /\ UNCHANGED <<dbVars, loadVars>>

\* lines 66-69: executor.submit(self._processRow, index, row) for the next
\* row of iterrows(); row is a copy of the row (no task has written to it)
PoolSubmit ==
    /\ gpc = "submitting"
    /\ Len(futures) < Len(data)
    /\ LET row == data[Len(futures) + 1]
           index == row.index
       IN  /\ futures' = Append(futures, index)
           /\ task' = [i \in DOMAIN task \cup {index} |->
                          IF i = index
                          THEN [state |-> "queued", step |-> "latitude", row |-> row]
                          ELSE task[i]]
    /\ UNCHANGED <<mapVars, raw, outcome, config, plot>>
    /\ UNCHANGED <<dbVars, loadVars>>

\* a thread of the pool takes the task of row index
PoolRun(index) ==
    /\ index \in DOMAIN task
    /\ task[index].state = "queued"
    /\ Cardinality({ i \in DOMAIN task : task[i].state = "running" }) < max_workers
    /\ task' = [task EXCEPT ![index].state = "running"]
    /\ UNCHANGED <<mapVars, raw, futures, outcome, config, plot>>
    /\ UNCHANGED <<dbVars, loadVars>>

\* the statement of _processRow(index, row) that writes next (lines 52-62),
\* in the thread that runs the task.  step names the cell the statement at
\* hand writes, if its condition holds
PoolWork(index) ==
    /\ index \in DOMAIN task
    /\ task[index].state = "running"
    /\ LET row == task[index].row
           step == task[index].step
           coordinates == extractCoordinates(row.link)
           place_name == extractPlaceName(row.link)
       IN  \/ /\ step = "latitude"
              /\ IF coordinates[1] # NoCoord /\ coordinates[2] # NoCoord
                 THEN /\ data' = SetAt(data, index, "latitude", coordinates[1])
                      /\ task' = [task EXCEPT ![index].step = "longitude"]
                 ELSE /\ data' = data
                      /\ task' = [task EXCEPT ![index].step = "place_name"]
           \/ /\ step = "longitude"
              /\ data' = SetAt(data, index, "longitude", coordinates[2])
              /\ task' = [task EXCEPT ![index].step = "place_name"]
           \/ /\ step = "place_name"
              /\ data' = IF Blank(row.place_name)
                         THEN SetAt(data, index, "place_name",
                                    IF place_name # "" THEN place_name
                                    ELSE "Unknown")
                         ELSE data
              /\ task' = [task EXCEPT ![index].step = "marker_colour"]
           \/ /\ step = "marker_colour"
              /\ IF row.marker_colour # NaN
                 THEN /\ data' = data
                      /\ task' = [task EXCEPT ![index].state = "done"]
                 ELSE IF config.marker_colour = "KeyError"
                 THEN /\ data' = data
                      /\ task' = [task EXCEPT ![index].state = "failed"]
                 ELSE /\ data' = SetAt(data, index, "marker_colour",
                                       config.marker_colour)
                      /\ task' = [task EXCEPT ![index].state = "done"]
    /\ UNCHANGED <<threshold, group_id, visited, next_id, gi, gpc>>
    /\ UNCHANGED <<raw, futures, outcome, config, plot>>
    /\ UNCHANGED <<dbVars, loadVars>>

\* the task of future k has finished, with a result or with an exception
Finished(k) == task[futures[k]].state \in {"done", "failed"}

\* leaving the with block without waiting for the tasks (shutdown(wait=False))
PoolJoinNoWait ==
    /\ gpc = "submitting"
    /\ Len(futures) = Len(data)
    /\ gpc' = "results"
    /\ UNCHANGED <<data, threshold, group_id, visited, next_id, gi>>
    /\ UNCHANGED <<poolVars, plotVars>>
    /\ UNCHANGED <<dbVars, loadVars>>

\* line 65: the end of the with block, executor.shutdown(wait=True), returns
\* when every task submitted has finished
PoolJoin ==
    /\ gpc = "submitting"
    /\ Len(futures) = Len(data)
    /\ \A k \in 1 .. Len(futures) : Finished(k)
    /\ gpc' = "results"
    /\ UNCHANGED <<data, threshold, group_id, visited, next_id, gi>>
    /\ UNCHANGED <<poolVars, plotVars>>
    /\ UNCHANGED <<dbVars, loadVars>>

\* _processData without the loop over future.result()
PoolResultsIgnored ==
    /\ gpc = "results"
    /\ \A k \in 1 .. Len(futures) : Finished(k)
    /\ gpc' = "dropna"
    /\ UNCHANGED <<data, threshold, group_id, visited, next_id, gi>>
    /\ UNCHANGED <<poolVars, plotVars>>
    /\ UNCHANGED <<dbVars, loadVars>>

\* lines 72-73: future.result() for the futures in the order submitted: each
\* waits for its task and raises the exception of the task, which leaves
\* _processData and loadMapData
PoolResults ==
    /\ gpc = "results"
    /\ \/ /\ \A k \in 1 .. Len(futures) : task[futures[k]].state = "done"
          /\ gpc' = "dropna"
          /\ outcome' = outcome
       \/ /\ \E k \in 1 .. Len(futures) :
                /\ task[futures[k]].state = "failed"
                /\ \A j \in 1 .. (k - 1) : task[futures[j]].state = "done"
          /\ gpc' = "failed"
          /\ outcome' = "KeyError"
    /\ UNCHANGED <<data, threshold, group_id, visited, next_id, gi>>
    /\ UNCHANGED <<raw, futures, task, config, plot>>
    /\ UNCHANGED <<dbVars, loadVars>>

\* line 76: self.data = self.data.dropna(subset=['latitude', 'longitude'])
PoolDropNa ==
    /\ gpc = "dropna"
    /\ data' = DropNaCoordinates(data, 1)
    /\ gpc' = "check"
    /\ UNCHANGED <<threshold, group_id, visited, next_id, gi>>
    /\ UNCHANGED <<poolVars, plotVars>>
    /\ UNCHANGED <<dbVars, loadVars>>

\* lines 92-93 without the raise
LoadCheckNoRaise ==
    /\ gpc = "check"
    /\ gpc' = "loaded"
    /\ outcome' = "ok"
    /\ UNCHANGED <<data, threshold, group_id, visited, next_id, gi>>
    /\ UNCHANGED <<raw, futures, task, config, plot>>
    /\ UNCHANGED <<dbVars, loadVars>>

\* lines 92-93: an empty data set raises Exception("No valid destinations to
\* map."); otherwise loadMapData returns and the caller goes on to plotMap
LoadCheck ==
    /\ gpc = "check"
    /\ IF data = << >>
       THEN /\ gpc' = "failed"
            /\ outcome' = "No valid destinations to map."
       ELSE /\ gpc' = "loaded"
            /\ outcome' = "ok"
    /\ UNCHANGED <<data, threshold, group_id, visited, next_id, gi>>
    /\ UNCHANGED <<raw, futures, task, config, plot>>
    /\ UNCHANGED <<dbVars, loadVars>>

\* _processRow (lines 50-62) run on its own: the row of data it leaves
_processRow(row, cfg) ==
    LET coordinates == extractCoordinates(row.link)
        found == coordinates[1] # NoCoord /\ coordinates[2] # NoCoord
        place_name == extractPlaceName(row.link)
    IN  [row EXCEPT
            !.latitude = IF found THEN coordinates[1] ELSE @,
            !.longitude = IF found THEN coordinates[2] ELSE @,
            !.place_name = IF Blank(@)
                           THEN (IF place_name # "" THEN place_name ELSE "Unknown")
                           ELSE @,
            !.marker_colour = IF @ = NaN THEN cfg.marker_colour ELSE @]

(***************************************************************************)
(* connect (tools/database.py, lines 57-75).                               *)
(***************************************************************************)
\* connect that does not check the schema version (lines 65-66 left out)
connectUnchecked(d, reachable, files, enforce_version) ==
    IF ~reachable THEN "DatabaseError"
    ELSE IF ~d.exists THEN "DatabaseNotFoundError"
    ELSE "none"

\* the exception connect raises, or "none": DatabaseNotFoundError when the
\* server says that the database does not exist, DatabaseError for any other
\* failure, that of enforceSchemaVersion included
connect(d, reachable, files, enforce_version) ==
    IF ~reachable THEN "DatabaseError"
    ELSE IF ~d.exists THEN "DatabaseNotFoundError"
    ELSE IF enforce_version # NoVersion
            /\ enforceSchemaVersion(d, TRUE, files, enforce_version) # "none"
         THEN "DatabaseError"
         ELSE "none"

(***************************************************************************)
(* examples/example_load_data.py: getMarker and loadDataFromCSV.           *)
(***************************************************************************)
\* the links of the CSV files loaded: with coordinates on the grid, or none
LoadUrls ==
    { [latitude |-> la, longitude |-> 0, place |-> "a"] : la \in 0 .. MaxLat }
    \cup {[latitude |-> NoCoord, longitude |-> NoCoord, place |-> "a"]}

\* the rows of the CSV files, after fillna('')
CsvRows == [link : LoadUrls \cup {NoLink}, place_name : {""},
            open_time : {""}, close_time : {""},
            marker_colour : {""}]

\* _getPlaceHTMLName (lines 30-34): the name, with the hours if both are given
_getPlaceHTMLName(name, open_time, close_time) ==
    [name |-> name, hours |-> (open_time # "" /\ close_time # "")]

RECURSIVE SumLatitude(_)
SumLatitude(S) ==
    IF S = {} THEN 0
    ELSE LET x == CHOOSE y \in S : TRUE
         IN  x.latitude + SumLatitude(S \ {x})

RECURSIVE SumLongitude(_)
SumLongitude(S) ==
    IF S = {} THEN 0
    ELSE LET x == CHOOSE y \in S : TRUE
         IN  x.longitude + SumLongitude(S \ {x})

\* geodesic(place, marker).km > threshold, on the grid: a marker's latitude
\* and longitude are quotients <<n, d>> (the means of getMarker)
TooFar(row, marker, t) ==
    LET la == marker.latitude
        lo == marker.longitude
    IN  Abs(row.latitude * la[2] - la[1]) * lo[2]
            + Abs(row.longitude * lo[2] - lo[1]) * la[2]
        > t * la[2] * lo[2]

\* the markers the loop of getMarker does not skip (line 50: distance >
\* threshold: continue).  SELECT ... FROM marker has no ORDER BY: the first
\* of them in the order of the result is any of them
NearMarkers(w, row, t) ==
    { m \in 1 .. Len(w.marker) : ~TooFar(row, w.marker[m], t) }

\* getMarker (lines 37-76) with m the marker the loop stops at, 0 if it stops
\* at none: [store, marker_id].  Lines 57-59: the mean is taken over the
\* places of the marker and the marker's own latitude and longitude
getMarker(w, row, m) ==
    LET name == _getPlaceHTMLName(row.place_name, row.open_time, row.close_time)
    IN  IF m # 0
        THEN LET place_results == { pl \in w.place : pl.marker_id = m }
                 n == Cardinality(place_results) + 1
                 la == w.marker[m].latitude
                 lo == w.marker[m].longitude
                 mean_latitude ==
                     Frac(SumLatitude(place_results) * la[2] + la[1], n * la[2])
                 mean_longitude ==
                     Frac(SumLongitude(place_results) * lo[2] + lo[1], n * lo[2])
             IN  [store |-> [w EXCEPT !.marker[m] =
                                [@ EXCEPT !.name = @ \o <<name>>,
                                          !.latitude = mean_latitude,
                                          !.longitude = mean_longitude]],
                  marker_id |-> m]
        ELSE [store |-> [w EXCEPT !.marker =
                            Append(@, [name      |-> <<name>>,
                                       latitude  |-> Frac(row.latitude, 1),
                                       longitude |-> Frac(row.longitude, 1),
                                       icon_id   |-> IF row.marker_colour # "green"
                                                     THEN 2 ELSE 3])],
              marker_id |-> Len(w.marker) + 1]

\* lines 111-116: INSERT INTO place ... ON CONFLICT (link) DO NOTHING
InsertPlace(w, row, marker_id) ==
    IF \E pl \in w.place : pl.link = row.link
    THEN w
    ELSE [w EXCEPT !.place = @ \cup {[link      |-> row.link,
                                      latitude  |-> row.latitude,
                                      longitude |-> row.longitude,
                                      name      |-> row.place_name,
                                      marker_id |-> marker_id]}]

\* a caller starts loadDataFromCSV(env, csv_file_path, target_version)
CallLoad(p, target_version) ==
    /\ p \in procs
    /\ pc[p] = "idle"
    /\ calls < MaxCalls
    /\ calls' = calls + 1
    /\ pc' = [pc EXCEPT ![p] = "l_connect"]
    /\ op' = [op EXCEPT ![p] = [NoOp EXCEPT !.name = "loadDataFromCSV",
                                           !.version = target_version]]
    /\ load' = [load EXCEPT ![p] = [NoLoad EXCEPT !.pc = "on",
                                       !.target_version = target_version]]
    /\ pre' = [pre EXCEPT ![p] = Snapshot]
    /\ UNCHANGED <<db, tx, lockHolder, conn, err, ret, allOk, procs>>
    /\ UNCHANGED <<store, work, nrows>>
    /\ UNCHANGED <<mapVars, poolVars, plotVars>>

\* line 85: connect(env, enforce_version=target_version, autocommit=False),
\* and line 86: DatabaseNotFoundError leads to createDatabase.  When connect
\* raises after _connect, the session stays open and the local conn is None
LoadConnect(p) ==
    /\ pc[p] = "l_connect"
    /\ \E reachable \in BOOLEAN, files \in SUBSET Versions :
         LET target_version == load[p].target_version
             raised == connect(View(p), reachable, files, target_version)
         IN  IF raised = "none"
             THEN /\ conn' = [conn EXCEPT ![p] = "target"]
                  /\ load' = [load EXCEPT ![p].conn = TRUE,
                                          ![p].expected =
                                              IF target_version = Latest
                                              THEN getLatestAvailableVersion(files).value
                                              ELSE target_version]
                  /\ work' = [work EXCEPT ![p] = store]
                  /\ pc' = [pc EXCEPT ![p] = "l_loop"]
                  /\ UNCHANGED <<op, err>>
             ELSE IF raised = "DatabaseNotFoundError"
             THEN /\ load' = [load EXCEPT ![p].pc = "create"]
                  /\ op' = [op EXCEPT ![p] =
                               [NoOp EXCEPT !.name = "createDatabase",
                                            !.version = target_version]]
                  /\ pc' = [pc EXCEPT ![p] = "c_connect"]
                  /\ UNCHANGED <<conn, work, err>>
             ELSE /\ conn' = [conn EXCEPT ![p] =
                                 IF reachable /\ db.exists THEN "target" ELSE @]
                  /\ err' = [err EXCEPT ![p] = raised]
                  /\ pc' = [pc EXCEPT ![p] = "l_except"]
                  /\ UNCHANGED <<load, op, work>>
    /\ UNCHANGED <<db, tx, lockHolder, ret, pre, allOk, calls, procs>>
    /\ UNCHANGED <<store, nrows>>
    /\ UNCHANGED <<mapVars, poolVars, plotVars>>

\* line 87: createDatabase(env, target_version) has returned or raised
LoadCreated(p) ==
    /\ pc[p] = "done"
    /\ load[p].pc = "create"
    /\ IF ret[p] = "ok"
       THEN /\ pc' = [pc EXCEPT ![p] = "l_reconnect"]
            /\ load' = [load EXCEPT ![p].pc = "on", ![p].created = TRUE]
            /\ err' = [err EXCEPT ![p] = "none"]
       ELSE /\ pc' = [pc EXCEPT ![p] = "l_except"]
            /\ load' = [load EXCEPT ![p].pc = "on"]
            /\ err' = [err EXCEPT ![p] = ret[p]]
    /\ op' = [op EXCEPT ![p] = [NoOp EXCEPT !.name = "loadDataFromCSV",
                                           !.version = load[p].target_version]]
    /\ ret' = [ret EXCEPT ![p] = "none"]
    /\ conn' = [conn EXCEPT ![p] = "none"]
    /\ UNCHANGED <<db, tx, lockHolder, pre, allOk, calls, procs>>
    /\ UNCHANGED <<store, work, nrows>>
    /\ UNCHANGED <<mapVars, poolVars, plotVars>>

\* line 88: connect(env, autocommit=False), without enforce_version
LoadReconnect(p) ==
    /\ pc[p] = "l_reconnect"
    /\ \E reachable \in BOOLEAN :
         LET raised == connect(View(p), reachable, {}, NoVersion)
         IN  IF raised = "none"
             THEN /\ conn' = [conn EXCEPT ![p] = "target"]
                  /\ load' = [load EXCEPT ![p].conn = TRUE,
                                          ![p].expected = load[p].target_version]
                  /\ work' = [work EXCEPT ![p] = store]
                  /\ pc' = [pc EXCEPT ![p] = "l_loop"]
                  /\ err' = err
             ELSE /\ err' = [err EXCEPT ![p] = raised]
                  /\ pc' = [pc EXCEPT ![p] = "l_except"]
                  /\ UNCHANGED <<conn, load, work>>
    /\ UNCHANGED <<db, tx, lockHolder, op, ret, pre, allOk, calls, procs>>
    /\ UNCHANGED <<store, nrows>>
    /\ UNCHANGED <<mapVars, poolVars, plotVars>>

\* lines 91-116: the next row of the file.  A row without a link is not in
\* df (line 92); the others get their coordinates and name from the link
\* (lines 99-100), a marker (getMarker) and a row in place.  sql: a statement
\* of getMarker fails, or the INSERT INTO place does; a row without
\* coordinates or a database without the tables makes the first statement fail
LoadRow(p) ==
    /\ pc[p] = "l_loop"
    /\ nrows < MaxCsvRows
    /\ nrows' = nrows + 1
    /\ \E csv_row \in CsvRows, sql \in {"ok", "error_marker", "error_place"} :
         IF csv_row.link = NoLink
         THEN /\ sql = "ok"
              /\ UNCHANGED <<work, load, pc, err>>
         ELSE LET coordinates == extractCoordinates(csv_row.link)
                  row == [link          |-> csv_row.link,
                          latitude      |-> coordinates[1],
                          longitude     |-> coordinates[2],
                          place_name    |-> IF csv_row.place_name # ""
                                            THEN csv_row.place_name
                                            ELSE extractPlaceName(csv_row.link),
                          open_time     |-> csv_row.open_time,
                          close_time    |-> csv_row.close_time,
                          marker_colour |-> csv_row.marker_colour]
                  near == NearMarkers(work[p], row, threshold)
              IN  IF sql = "error_marker" \/ ~View(p).table
                     \/ coordinates[1] = NoCoord
                  THEN /\ err' = [err EXCEPT ![p] = "Exception"]
                       /\ pc' = [pc EXCEPT ![p] = "l_except"]
                       /\ UNCHANGED <<work, load>>
                  ELSE \E m \in (IF near = {} THEN {0} ELSE near) :
                         LET got == getMarker(work[p], row, m)
                         IN  IF sql = "error_place"
                             THEN /\ work' = [work EXCEPT ![p] = got.store]
                                  /\ load' = [load EXCEPT ![p].written = @ + 1]
                                  /\ err' = [err EXCEPT ![p] = "Exception"]
                                  /\ pc' = [pc EXCEPT ![p] = "l_except"]
                             ELSE /\ work' = [work EXCEPT ![p] =
                                         InsertPlace(got.store, row, got.marker_id)]
                                  /\ load' = [load EXCEPT ![p].written = @ + 1]
                                  /\ UNCHANGED <<pc, err>>
    /\ UNCHANGED <<db, tx, lockHolder, conn, op, ret, pre, allOk, calls, procs>>
    /\ UNCHANGED store
    /\ UNCHANGED <<mapVars, poolVars, plotVars>>

\* lines 118-120 and 128-131: the file is read; conn.commit() and close
LoadCommit(p) ==
    /\ pc[p] = "l_loop"
    /\ store' = work[p]
    /\ db' = Committed(p)
    /\ tx' = [tx EXCEPT ![p] = NoTx]
    /\ lockHolder' = Released(p)
    /\ conn' = [conn EXCEPT ![p] = "closed"]
    /\ ret' = [ret EXCEPT ![p] = "ok"]
    /\ pc' = [pc EXCEPT ![p] = "done"]
    /\ UNCHANGED <<op, err, pre, allOk, calls, procs>>
    /\ UNCHANGED <<load, work, nrows>>
    /\ UNCHANGED <<mapVars, poolVars, plotVars>>

\* the except clause committing what the call has written
LoadExceptCommit(p) ==
    /\ pc[p] = "l_except"
    /\ IF load[p].conn
       THEN /\ store' = work[p]
            /\ tx' = [tx EXCEPT ![p] = NoTx]
            /\ lockHolder' = Released(p)
            /\ conn' = [conn EXCEPT ![p] = "closed"]
       ELSE UNCHANGED <<store, tx, lockHolder, conn>>
    /\ ret' = [ret EXCEPT ![p] = err[p]]
    /\ pc' = [pc EXCEPT ![p] = "done"]
    /\ UNCHANGED <<db, op, err, pre, allOk, calls, procs>>
    /\ UNCHANGED <<load, work, nrows>>
    /\ UNCHANGED <<mapVars, poolVars, plotVars>>

\* lines 122-131: rollback and close if conn is set, and raise again
LoadExcept(p) ==
    /\ pc[p] = "l_except"
    /\ IF load[p].conn
       THEN /\ work' = [work EXCEPT ![p] = store]
            /\ tx' = [tx EXCEPT ![p] = NoTx]
            /\ lockHolder' = Released(p)
            /\ conn' = [conn EXCEPT ![p] = "closed"]
       ELSE UNCHANGED <<work, tx, lockHolder, conn>>
    /\ ret' = [ret EXCEPT ![p] = err[p]]
    /\ pc' = [pc EXCEPT ![p] = "done"]
    /\ UNCHANGED <<db, op, err, pre, allOk, calls, procs>>
    /\ UNCHANGED <<load, store, nrows>>
    /\ UNCHANGED <<mapVars, poolVars, plotVars>>

(***************************************************************************)
(* Specifications.                                                         *)
(***************************************************************************)
\* no worker pool has run and plotMap has not got beyond _groupLocations
PoolOff ==
    /\ raw = << >>
    /\ futures = << >>
    /\ task = << >>
    /\ outcome = "none"
    /\ config = [marker_colour |-> "blue"]
    /\ plot = NoPlot

\* no Map is loaded
MapOff ==
    /\ data = << >>
    /\ threshold = 1
    /\ group_id = << >>
    /\ visited = {}
    /\ next_id = 0
    /\ gi = 0
    /\ gpc = "off"
    /\ PoolOff

\* a server without the project database, and no call running
DbInit(running) ==
    /\ db = EmptyDb
    /\ tx = [p \in AllProcs |-> NoTx]
    /\ lockHolder = NoProc
    /\ conn = [p \in AllProcs |-> "none"]
    /\ pc = [p \in AllProcs |-> "idle"]
    /\ op = [p \in AllProcs |-> NoOp]
    /\ err = [p \in AllProcs |-> "none"]
    /\ ret = [p \in AllProcs |-> "none"]
    /\ pre = [p \in AllProcs |-> EmptyDb]
    /\ allOk = TRUE
    /\ calls = 0
    /\ procs = running
    /\ load = [p \in AllProcs |-> NoLoad]
    /\ store = EmptyStore
    /\ work = [p \in AllProcs |-> EmptyStore]
    /\ nrows = 0

\* Map.plotMap on the data set loadMapData left: _groupLocations
InitGroup ==
    /\ data \in DataSets
    /\ threshold \in 1 .. MaxThreshold
    /\ group_id = << >>
    /\ visited = {}
    /\ next_id = 0
    /\ gi = 0
    /\ gpc = "loaded"
    /\ PoolOff
    /\ DbInit({})

NextGroup == GroupStart \/ GroupSkip \/ GroupSeed \/ GroupEnd

SpecGroup == InitGroup /\ [][NextGroup]_vars

\* createDatabase and upgradeDatabase, as one process runs them
Migrate(p) ==
    \/ \E version \in Versions \cup {NoVersion} : CallCreate(p, version)
    \/ CreateConnect(p)
    \/ CreateDb(p)
    \/ CreateReconnect(p)
    \/ CreateSchema(p)
    \/ CreateLock(p)
    \/ CreatePopulate(p)
    \/ CreateCommit(p)
    \/ CreateExcept(p)
    \/ \E from_version \in Versions, to_version \in Versions :
           CallUpgrade(p, from_version, to_version)
    \/ UpgradeConnect(p)
    \/ UpgradeLock(p)
    \/ UpgradeSchema(p)
    \/ UpgradePopulate(p)
    \/ UpgradeCommit(p)
    \/ UpgradeExcept(p)
    \/ Return(p)

\* the checks of the schema version a process makes between migrations
Query(p) ==
    \/ CallGetSchemaVersion(p)
    \/ \E version \in Versions \cup {Latest}, dir \in BOOLEAN,
          files \in SUBSET Versions : CallEnforce(p, version, dir, files)

NextMigrate == \E p \in AllProcs : Migrate(p) \/ Query(p)

NextConcurrent == \E p \in AllProcs : Migrate(p)

\* one process calls the migration runner, one call after the other
InitMigrate == MapOff /\ DbInit({"p1"})

SpecMigrate == InitMigrate /\ [][NextMigrate]_vars

\* two processes call the migration runner concurrently
InitConcurrent == MapOff /\ DbInit(AllProcs)

SpecConcurrent == InitConcurrent /\ [][NextConcurrent]_vars

\* the index labels of the rows of a file
PoolLabels == 0 .. (MaxPoolRows - 1)

\* Map.loadMapData(file_path) and then Map.plotMap(), as examples/example_1.py
\* calls them
InitEnrich ==
    /\ raw \in PoolFiles
    /\ config \in PoolConfigs
    /\ data = << >>
    /\ threshold = 1
    /\ group_id = << >>
    /\ visited = {}
    /\ next_id = 0
    /\ gi = 0
    /\ gpc = "csv"
    /\ futures = << >>
    /\ task = << >>
    /\ outcome = "none"
    /\ plot = NoPlot
    /\ DbInit({})

NextEnrich ==
    \/ LoadMapData
    \/ PoolSubmit
    \/ \E index \in PoolLabels : PoolRun(index) \/ PoolWork(index)
    \/ PoolJoin
    \/ PoolResults
    \/ PoolDropNa
    \/ LoadCheck
    \/ NextGroup

SpecEnrich == InitEnrich /\ [][NextEnrich]_vars

\* the rows of a file, one at a time: a link with or without coordinates and
\* with or without a place name; latitude and longitude columns that are
\* missing, half given or given; a place_name that is missing, empty, white
\* space or a name; a marker_colour that is missing or given
RowLinks ==
    [latitude : {1}, longitude : {0}, place : {"a", ""}]
    \cup [latitude : {NoCoord}, longitude : {NoCoord}, place : {"a", ""}]

RowKinds ==
    [link : RowLinks,
     latitude : {NoCoord, 0}, longitude : {NoCoord, 0},
     place_name : {NaN, "", " ", "cafe"},
     marker_colour : {NaN, "red"},
     open_time : {NaN}, close_time : {NaN}]

\* Map.loadMapData on a file of one row
InitRow ==
    /\ raw \in { <<r>> : r \in RowKinds }
    /\ config \in PoolConfigs
    /\ data = << >>
    /\ threshold = 1
    /\ group_id = << >>
    /\ visited = {}
    /\ next_id = 0
    /\ gi = 0
    /\ gpc = "csv"
    /\ futures = << >>
    /\ task = << >>
    /\ outcome = "none"
    /\ plot = NoPlot
    /\ DbInit({})

NextRow ==
    \/ LoadMapData
    \/ PoolSubmit
    \/ \E index \in PoolLabels : PoolRun(index) \/ PoolWork(index)
    \/ PoolJoin
    \/ PoolResults
    \/ PoolDropNa
    \/ LoadCheck

SpecRow == InitRow /\ [][NextRow]_vars

\* Map.plotMap on the data set loadMapData left, as examples/example_1.py
\* calls it
InitPlot ==
    /\ data \in DataSets
    /\ threshold = MaxThreshold
    /\ group_id = << >>
    /\ visited = {}
    /\ next_id = 0
    /\ gi = 0
    /\ gpc = "loaded"
    /\ PoolOff
    /\ DbInit({})

NextPlot ==
    \/ NextGroup
    \/ \E focus_type \in FocusTypes : PlotFocus(focus_type)
    \/ \E focus_size \in FocusSizes : PlotSize(focus_size)
    \/ PlotCreate
    \/ PlotFit
    \/ PlotMarkers

SpecPlot == InitPlot /\ [][NextPlot]_vars

\* data sets whose rows differ in their hours: rows at the same place or a
\* threshold apart, each with or without open_time and close_time
RECURSIVE PopupRows(_, _, _)
PopupRows(n, la, hours) ==
    IF n = 0 THEN << >>
    ELSE Append(PopupRows(n - 1, la, hours),
                [index |-> n - 1, latitude |-> la[n], longitude |-> 0,
                 place_name |-> "place " \o ToString(n - 1),
                 open_time |-> hours[n][1], close_time |-> hours[n][2]])

PopupDataSets ==
    UNION { { PopupRows(n, la, hours) :
                la \in [1 .. n -> {0, MaxThreshold}],
                hours \in [1 .. n -> {NaN, "09:00"} \X {NaN, "17:00"}] }
            : n \in 1 .. MaxRows }

\* Map.plotMap on a data set with opening hours
InitPopup ==
    /\ data \in PopupDataSets
    /\ threshold = MaxThreshold
    /\ group_id = << >>
    /\ visited = {}
    /\ next_id = 0
    /\ gi = 0
    /\ gpc = "loaded"
    /\ PoolOff
    /\ DbInit({})

SpecPopup == InitPopup /\ [][NextPlot]_vars

\* loadDataFromCSV, as one process runs it
Loader(p) ==
    \/ \E target_version \in Versions \cup {Latest} : CallLoad(p, target_version)
    \/ LoadConnect(p)
    \/ LoadCreated(p)
    \/ LoadReconnect(p)
    \/ LoadRow(p)
    \/ LoadCommit(p)
    \/ LoadExcept(p)

\* the createDatabase that loadDataFromCSV calls
LoaderCreate(p) ==
    \/ CreateConnect(p)
    \/ CreateDb(p)
    \/ CreateReconnect(p)
    \/ CreateSchema(p)
    \/ CreateLock(p)
    \/ CreatePopulate(p)
    \/ CreateCommit(p)
    \/ CreateExcept(p)

NextLoad == \E p \in AllProcs : Loader(p) \/ LoaderCreate(p) \/ Return(p)

\* the database createDatabase(env, version) leaves, with or without a
\* population script
DbCreated(version, script) ==
    LET t == CreateSchemaFile(NoTx, version, 1)
    IN  [exists  |-> TRUE,
         table   |-> t.table,
         ledger  |-> t.rows,
         changes |-> IF script THEN PopulateScript(t, 0, version).changes
                     ELSE t.changes]

\* the database upgradeDatabase(env, to_version, to_version) leaves: the loop
\* is empty and the row of to_version is inserted
DbUpgraded(d, to_version) ==
    [d EXCEPT !.ledger = @ \cup InsertVersion(@, to_version, 2)]

\* the databases loadDataFromCSV finds: none, one without the schema, one
\* that createDatabase has made, and one that was upgraded after that
LoadDbStates ==
    {EmptyDb, [EmptyDb EXCEPT !.exists = TRUE]}
    \cup { DbCreated(v, script) : v \in Versions, script \in BOOLEAN }
    \cup { DbUpgraded(DbCreated(v, FALSE), t) : v \in Versions, t \in Versions }

InitLoad ==
    /\ MapOff
    /\ db \in LoadDbStates
    /\ tx = [p \in AllProcs |-> NoTx]
    /\ lockHolder = NoProc
    /\ conn = [p \in AllProcs |-> "none"]
    /\ pc = [p \in AllProcs |-> "idle"]
    /\ op = [p \in AllProcs |-> NoOp]
    /\ err = [p \in AllProcs |-> "none"]
    /\ ret = [p \in AllProcs |-> "none"]
    /\ pre = [p \in AllProcs |-> EmptyDb]
    /\ allOk = TRUE
    /\ calls = 0
    /\ procs = {"p1"}
    /\ load = [p \in AllProcs |-> NoLoad]
    /\ store = EmptyStore
    /\ work = [p \in AllProcs |-> EmptyStore]
    /\ nrows = 0

\* one process loads CSV files into the database, one call after the other
SpecLoad == InitLoad /\ [][NextLoad]_vars

(***************************************************************************)
(* Properties of Map._groupLocations (SpecGroup).                          *)
(***************************************************************************)
\* the rows of group g
Members(g) == { i \in DOMAIN group_id : group_id[i] = g }

\* when _groupLocations has finished, every row has a group, the groups are
\* 0 .. next_id - 1 and none of them is empty
EveryRowGrouped ==
    gpc = "grouped" =>
        /\ DOMAIN group_id = IndexOf(data)
        /\ visited = IndexOf(data)
        /\ \A i \in IndexOf(data) : group_id[i] \in 0 .. (next_id - 1)
        /\ \A g \in 0 .. (next_id - 1) : Members(g) # {}

\* a row that has a group keeps it
GroupKept ==
    \A i \in DOMAIN group_id :
        group_id[i] # NoGroup =>
            i \in DOMAIN group_id' /\ group_id'[i] = group_id[i]

\* C1: for every threshold t > 0 and every sequence of enriched records,
\* when _groupLocations has finished every record carries one group_id (none
\* is left without a group), and a record that was given a group is never
\* given another one
C1_Partition == [](EveryRowGrouped) /\ [][GroupKept]_vars

\* C1 happens: a finished grouping with two rows in one group and a row in
\* another one
C1_Witness ==
    /\ gpc = "grouped"
    /\ \E i, j, k \in IndexOf(data) :
         /\ i # j
         /\ group_id[i] = group_id[j]
         /\ group_id[k] # group_id[i]

(***************************************************************************)
(* Properties of the migration runner (SpecMigrate: the calls of one       *)
(* process; SpecConcurrent: two processes).                                *)
(***************************************************************************)
\* the call named name has returned to its caller in process p
Returned(p, name) == pc[p] = "done" /\ op[p].name = name

\* the versions recorded in a ledger
VersionsIn(ledger) == { r.version : r \in ledger }

\* the rows of a ledger with the most recent applied_at
MostRecent(ledger) ==
    { r \in ledger : \A s \in ledger : s.applied_at <= r.applied_at }

\* the current version of a database: that of its most recent ledger row;
\* NoVersion without a row or without the table
CurrentVersion(d) ==
    IF d.table /\ d.ledger # {}
    THEN (CHOOSE r \in MostRecent(d.ledger) : TRUE).version
    ELSE NoVersion

\* C2: upgradeDatabase(from, to) is all-or-nothing: when it fails at any
\* step, the current version of the ledger is the one before the call and
\* every schema and data change of the earlier steps of the call is reverted
C2_UpgradeAllOrNothing ==
    \A p \in AllProcs :
        (Returned(p, "upgradeDatabase") /\ ret[p] # "ok") =>
            /\ CurrentVersion(db) = CurrentVersion(pre[p])
            /\ db.changes = pre[p].changes

\* C3: createDatabase is all-or-nothing: when it raises, whatever step has
\* failed, the database object does not exist
C3_CreateAllOrNothing ==
    \A p \in AllProcs :
        (Returned(p, "createDatabase") /\ ret[p] # "ok") => ~db.exists

\* the positions of a migration between taking the lock and its last commit
\* or rollback
Migrating(p) == pc[p] \in {"c_populate", "u_loop", "u_populate"}

\* C4: a migration holds the exclusive lock on schema_version from the moment
\* it has it until its final commit or rollback, for every step of an upgrade,
\* so that no two concurrent migrations are between their steps at a time
C4_LockSerializes ==
    /\ \A p \in AllProcs : Migrating(p) => lockHolder = p
    /\ \A p, q \in AllProcs : (Migrating(p) /\ Migrating(q)) => p = q

\* C5: when upgradeDatabase(from, to) has returned without an error, the
\* ledger has one row for version to and getSchemaVersion returns to
C5_UpgradeRecordsTo ==
    \A p \in AllProcs :
        (Returned(p, "upgradeDatabase") /\ ret[p] = "ok") =>
            /\ Cardinality({ r \in db.ledger : r.version = op[p].to_version }) = 1
            /\ getSchemaVersion(db) = [exc |-> "none", value |-> op[p].to_version]

\* the versions whose schema has been applied to the database
Applied(d) == { c.version : c \in { x \in d.changes : x.kind = "schema" } }

\* a set of versions without a gap
Contiguous(S) == \A v \in Versions :
                     (\E a \in S : a < v) /\ (\E b \in S : v < b) => v \in S

\* C6: the versions are applied in sequence without a gap: the loop of
\* upgradeDatabase goes from -> from+1, ..., to-1 -> to, and after any
\* sequence of successful createDatabase and upgradeDatabase calls the ledger
\* has a row for every version applied, a contiguous range
C6_NoGaps ==
    /\ \A p \in AllProcs :
           pc[p] = "u_populate" =>
               /\ op[p].from_version <= op[p].version
               /\ op[p].version < op[p].to_version
    /\ (allOk /\ \A p \in AllProcs : pc[p] \in {"idle", "done"}) =>
           /\ Applied(db) \subseteq VersionsIn(db.ledger)
           /\ Contiguous(VersionsIn(db.ledger))

\* C7: across any sequence of createDatabase and upgradeDatabase calls, with
\* any from_version and to_version, the version getSchemaVersion returns
\* never decreases
C7_VersionNeverDecreases ==
    [][(db.exists /\ db'.exists /\ CurrentVersion(db) # NoVersion)
          => CurrentVersion(db') >= CurrentVersion(db)]_vars

\* C8: getSchemaVersion returns the version of the ledger row with the most
\* recent applied_at, and None, not an error, when the schema_version table is
\* empty and when it is absent
C8_GetSchemaVersion ==
    \A p \in AllProcs :
        Returned(p, "getSchemaVersion") =>
            /\ ret[p] = "ok"
            /\ IF db.table /\ db.ledger # {}
               THEN \E r \in MostRecent(db.ledger) : op[p].value = r.version
               ELSE op[p].value = NoVersion

\* the expected version of an enforceSchemaVersion call is defined: a version,
\* or -1 with a directory that has a vN_create_schema.sql
ExpectedDefined(o) == o.version # Latest \/ (o.dir /\ o.files # {})

\* -1 stands for the highest N with a vN_create_schema.sql
Expected(o) == IF o.version = Latest THEN MaxOf(o.files) ELSE o.version

\* C9: enforceSchemaVersion(expected) raises DatabaseError exactly when the
\* current version of the ledger differs from the expected one (-1: the
\* highest version with a create schema file); when they are equal it returns
\* without an error, and it changes nothing in the database
C9_Enforce ==
    \A p \in AllProcs :
        (Returned(p, "enforceSchemaVersion") /\ ExpectedDefined(op[p])) =>
            LET same == /\ db.table
                        /\ db.ledger # {}
                        /\ \A r \in MostRecent(db.ledger) :
                               r.version = Expected(op[p])
            IN  /\ ret[p] = "DatabaseError" <=> ~same
                /\ ret[p] = "ok" <=> same
                /\ db = pre[p]
                /\ tx[p] = NoTx
                /\ lockHolder = NoProc

\* C9 happens: enforceSchemaVersion(-1) has returned without an error on a
\* database whose version is the latest of several create schema files
C9_Witness ==
    \E p \in AllProcs :
        /\ Returned(p, "enforceSchemaVersion")
        /\ op[p].version = Latest
        /\ Cardinality(op[p].files) > 1
        /\ ret[p] = "ok"

\* C10: createDatabase and upgradeDatabase report a missing schema file, a
\* schema SQL failure and a population failure to the caller as three error
\* kinds, and the transaction is aborted in each case
C10_DistinctErrors ==
    \A p \in AllProcs :
        (/\ pc[p] = "done"
         /\ op[p].name \in {"createDatabase", "upgradeDatabase"}
         /\ err[p] \in {"SchemaFileNotFoundError", "SchemaApplicationError",
                        "DataPopulationError"}) =>
            /\ ret[p] = err[p]
            /\ tx[p].rows = {} /\ tx[p].changes = {} /\ ~tx[p].table
            /\ lockHolder # p

(***************************************************************************)
(* Properties of loadDataFromCSV (SpecLoad).                               *)
(***************************************************************************)
\* C11: loadDataFromCSV writes no marker or place row unless the current
\* schema version of the database is target_version: on every path, also when
\* the database was missing and has been created, the version is checked or
\* the database created at target_version before the first write
C11_CheckBeforeWrite ==
    \A p \in AllProcs :
        (op[p].name = "loadDataFromCSV"
         /\ (pc[p] = "l_loop" \/ load[p].written > 0)) =>
            /\ load[p].expected \in Versions
            /\ load[p].target_version \in {load[p].expected, Latest}
            /\ getSchemaVersion(db) = [exc |-> "none", value |-> load[p].expected]

\* C11 happens: the database was missing, loadDataFromCSV has created it and
\* has written a row
C11_Witness ==
    \E p \in AllProcs :
        /\ op[p].name = "loadDataFromCSV"
        /\ load[p].created
        /\ load[p].written > 0

(***************************************************************************)
(* Properties of Map.loadMapData and its worker pool (SpecEnrich).         *)
(***************************************************************************)
\* loadMapData has returned or raised
Loaded == gpc \in {"loaded", "grouping", "grouped", "failed"}

\* a row of the file that has a link and, from the link or from its own
\* columns, both coordinates
Usable(r) ==
    /\ r.link # NoLink
    /\ \/ extractCoordinates(r.link) # <<NoCoord, NoCoord>>
       \/ (r.latitude # NoCoord /\ r.longitude # NoCoord)

\* some task has raised
WorkerFailed == \E i \in DOMAIN task : task[i].state = "failed"

Joined == gpc \in {"results", "dropna", "check", "loaded", "grouping",
                   "grouped", "failed"}

\* C13: the join of the pool is a barrier: every task submitted has finished,
\* with a result or an exception, before a row is dropped for its coordinates
\* and before _groupLocations reads the data, and no task runs or writes after
\* the join
C13_JoinBarrier ==
    /\ [](Joined => /\ Len(futures) = Cardinality(DOMAIN task)
                    /\ \A k \in 1 .. Len(futures) : Finished(k))
    /\ [][(task' # task) => (gpc = "submitting" /\ gpc' = "submitting")]_vars

\* C13 happens: the tasks of all rows of a file have finished and a row has
\* then been dropped for its coordinates
C13_Witness ==
    /\ gpc = "check"
    /\ Len(futures) = MaxPoolRows
    /\ 0 < Len(data)
    /\ Len(data) < Len(futures)

\* the data set that processing the rows one after the other leaves
Sequential == [k \in 1 .. Len(DropNaLink(raw, 1)) |->
                  _processRow(DropNaLink(raw, 1)[k], config)]

\* a step writes at most to the row of the task that makes it, and there only
\* to the cells latitude, longitude, place_name and marker_colour
OwnCellsOnly ==
    (gpc = "submitting" /\ gpc' = "submitting") =>
        /\ Len(data') = Len(data)
        /\ \A k \in 1 .. Len(data) :
               data'[k] # data[k] =>
                   /\ data[k].index \in DOMAIN task
                   /\ task'[data[k].index] # task[data[k].index]
                   /\ \A j \in (1 .. Len(data)) \ {k} : data'[j] = data[j]
                   /\ \A c \in {"index", "link", "open_time", "close_time"} :
                          data'[k][c] = data[k][c]

\* C14: no two workers share a cell: the worker of row i writes only the
\* cells latitude, longitude, place_name and marker_colour of row i and reads
\* only its own copy of the row, so that for every interleaving the enriched
\* data set is the one that processing the rows in sequence gives
C14_DisjointCells ==
    /\ []((gpc = "results" /\ ~WorkerFailed) => data = Sequential)
    /\ [][OwnCellsOnly]_vars
    /\ [](\A i \in DOMAIN task :
              \E k \in 1 .. Len(DropNaLink(raw, 1)) :
                  /\ DropNaLink(raw, 1)[k].index = i
                  /\ task[i].row = DropNaLink(raw, 1)[k])

\* C14 happens: two workers are between their writes at the same time
C14_Witness ==
    \E i, j \in DOMAIN task :
        /\ i # j
        /\ task[i].state = "running" /\ task[i].step = "longitude"
        /\ task[j].state = "running" /\ task[j].step = "longitude"

\* C15: the failure of one worker leaves _processData and loadMapData: the
\* rows are not dropped and _groupLocations does not run, whichever row has
\* failed and however many others have succeeded
C15_FailurePropagates ==
    WorkerFailed =>
        /\ gpc \in {"submitting", "results", "failed"}
        /\ gpc = "failed" =>
               /\ outcome = "KeyError"
               /\ Len(data) = Len(futures)
               /\ group_id = << >>

\* C15 happens: the second of two rows has failed, the first has succeeded,
\* and loadMapData has raised the failure
C15_Witness ==
    /\ gpc = "failed"
    /\ outcome = "KeyError"
    /\ Len(futures) > 1
    /\ task[futures[1]].state = "done"
    /\ task[futures[2]].state = "failed"

(***************************************************************************)
(* Properties of the order of the rows in _groupLocations (SpecGroup).     *)
(***************************************************************************)
\* the partition of the index labels that a group_id column stands for
PartitionOf(f) ==
    { { i \in DOMAIN f : f[i] = f[j] } : j \in DOMAIN f }

Reverse(d) == [k \in 1 .. Len(d) |-> d[Len(d) + 1 - k]]

\* the row at position k of d is the first of its group in f: its seed
SeedAt(d, f, k) ==
    \A j \in 1 .. (k - 1) : f[d[j].index] # f[d[k].index]

\* the orders of the rows of d in which the seeds of the groups of f keep
\* their order and every seed still comes before the members of its group:
\* only the members are in another order (q[k]: the new position of d[k])
Reorderings(d, f) ==
    LET n == Len(d)
        keeps(q) ==
            /\ \A a, b \in 1 .. n : (a # b) => (q[a] # q[b])
            /\ \A a, b \in 1 .. n :
                   (/\ a < b
                    /\ SeedAt(d, f, a)
                    /\ (SeedAt(d, f, b) \/ f[d[b].index] = f[d[a].index]))
                       => q[a] < q[b]
    IN  { [j \in 1 .. n |-> d[CHOOSE k \in 1 .. n : q[k] = j]] :
            q \in { r \in [1 .. n -> 1 .. n] : keeps(r) } }

\* three rows in a line, one unit apart, and their grouping at threshold 2
OrderExample ==
    <<[index |-> 0, latitude |-> 0, longitude |-> 0],
      [index |-> 1, latitude |-> 1, longitude |-> 0],
      [index |-> 2, latitude |-> 2, longitude |-> 0]>>

\* C16: the grouping depends on the order of the rows: there are rows and a
\* threshold for which the rows and the same rows in reverse order give
\* different partitions; the partition does not depend on the order in which
\* the members of a group were added to it
C16_OrderDependent ==
    /\ PartitionOf(_groupLocations(OrderExample, 2))
           # PartitionOf(_groupLocations(Reverse(OrderExample), 2))
    /\ gpc = "grouped" =>
           /\ group_id = _groupLocations(data, threshold)
           /\ \A e \in Reorderings(data, group_id) :
                  PartitionOf(_groupLocations(e, threshold)) = PartitionOf(group_id)

\* C16 happens: a finished grouping whose partition is not the one of the
\* rows in reverse order, and whose members can come in another order
C16_Witness ==
    /\ gpc = "grouped"
    /\ PartitionOf(_groupLocations(Reverse(data), threshold)) # PartitionOf(group_id)
    /\ \E e \in Reorderings(data, group_id) : e # data

\* the row at position k starts a group: no seed before it is nearer than t
RECURSIVE IsSeed(_, _, _)
IsSeed(d, t, k) ==
    \A j \in 1 .. (k - 1) : IsSeed(d, t, j) => ~(geodesic(d[j], d[k]) < t)

\* the position of the seed whose group the row at position k is in
SeedOf(d, t, k) ==
    IF IsSeed(d, t, k) THEN k
    ELSE MinOf({ j \in 1 .. (k - 1) : IsSeed(d, t, j) /\ geodesic(d[j], d[k]) < t })

\* C20: the seed alone decides membership, with a strict comparison: a row is
\* a seed iff no seed before it is at a distance below the threshold, a row
\* that is no seed is in the group of the first such seed, a row at exactly
\* the threshold does not join, and the groups are numbered 0, 1, 2, ... in
\* the order of their seeds
C20_SeedDecides ==
    gpc = "grouped" =>
        \A k \in 1 .. Len(data) :
            group_id[data[k].index] =
                Cardinality({ j \in 1 .. (SeedOf(data, threshold, k) - 1) :
                                IsSeed(data, threshold, j) })

\* C20 happens: of the rows after a seed one, below the threshold, is in its
\* group and one, at exactly the threshold, has started the next group
C20_Witness ==
    /\ gpc = "grouped"
    /\ \E j, k \in 2 .. Len(data) :
         /\ geodesic(data[1], data[j]) < threshold
         /\ data[j] # data[1]
         /\ group_id[data[j].index] = 0
         /\ j < k
         /\ geodesic(data[1], data[k]) = threshold
         /\ group_id[data[k].index] = 1

(***************************************************************************)
(* Properties of Map.plotMap (SpecPlot).                                   *)
(***************************************************************************)
\* the location of a record, as a focus location
LocationOf(row) == <<Frac(row.latitude, 1), Frac(row.longitude, 1)>>

\* line 168 has been executed
FocusRead == plot.step # "off"

\* line 169 has been executed
SizeRead ==
    \/ plot.step \in {"create", "fit", "markers", "done"}
    \/ (plot.step = "raised" /\ plot.location # << >>)

\* C17: the focus policies first and last give the location of the first and
\* of the last record of the data set that is plotted, whatever the other
\* records are and whichever rows loadMapData has dropped; a focus_type other
\* than first, last and centre is a fatal configuration error
C17_FocusFirstLast ==
    FocusRead =>
        /\ plot.focus_type = "first" => plot.location = LocationOf(data[1])
        /\ plot.focus_type = "last" => plot.location = LocationOf(data[Len(data)])
        /\ plot.focus_type \notin {"first", "last", "centre"} =>
               (plot.step = "raised" /\ plot.raised = "AssertionError" /\ ~plot.map)

\* C18: with the focus policy centre the centre of the map is the mean
\* location of the markers, each marker counted once however many records it
\* merges
C18_FocusCentre ==
    (plot.step = "done" /\ plot.focus_type = "centre") =>
        plot.location = _calculateMeanLocation(plot.markers)

\* the focus size is "fit" or an integer above 1
ValidSize(focus_size) ==
    \/ focus_size = StrSize("fit")
    \/ (focus_size.type = "int" /\ focus_size.int > 1)

\* C19: with the focus size fit the map is created at a nominal zoom and
\* fit_bounds is then called exactly once, with [[min_lat, min_lon],
\* [max_lat, max_lon]] over all markers; with an integer above 1 that zoom is
\* used and fit_bounds is not called; every other value is a fatal
\* configuration error raised before a map is created
C19_FocusSize ==
    SizeRead =>
        /\ (plot.focus_size = StrSize("fit") /\ plot.step \in {"markers", "done"}) =>
               /\ plot.map
               /\ plot.zoom_start = FitZoom
               /\ Len(plot.fit_bounds) = 1
        /\ (plot.focus_size = StrSize("fit") /\ plot.step = "done") =>
               plot.fit_bounds = <<_calculateBounds(plot.markers)>>
        /\ (plot.focus_size.type = "int" /\ plot.focus_size.int > 1) =>
               /\ plot.zoom_start = plot.focus_size.int
               /\ plot.fit_bounds = << >>
               /\ plot.step # "raised"
        /\ ~ValidSize(plot.focus_size) =>
               (plot.step = "raised" /\ plot.raised = "AssertionError" /\ ~plot.map)

(***************************************************************************)
(* Properties of the markers of Map.plotMap (SpecPlot).                    *)
(***************************************************************************)
\* plotMap has added one marker for each group
OneMarkerPerGroup ==
    /\ Len(plot.markers) = Cardinality(PartitionOf(group_id))
    /\ Len(plot.markers) = next_id

\* C21: plotMap emits exactly one visual marker per group, positioned at the
\* group's representative location, which is the mean of the latitudes and
\* the mean of the longitudes of all members of that group
C21_MarkerAtMean ==
    plot.step = "done" =>
        /\ OneMarkerPerGroup
        /\ \A m \in 1 .. Len(plot.markers) :
               LocationOf(plot.markers[m])
                   = _calculateMeanLocation(GroupRows(data, group_id, m - 1))

\* C21, amended: plotMap emits exactly one visual marker per group, positioned
\* at the location of the first member of that group in the order of the
\* data set, which is the seed of the group
C21_MarkerAtFirst ==
    plot.step = "done" =>
        /\ OneMarkerPerGroup
        /\ \A m \in 1 .. Len(plot.markers) :
               \E k \in 1 .. Len(data) :
                   /\ group_id[data[k].index] = m - 1
                   /\ \A j \in 1 .. (k - 1) : group_id[data[j].index] # m - 1
                   /\ plot.markers[m].latitude = data[k].latitude
                   /\ plot.markers[m].longitude = data[k].longitude

\* C21 happens: plotMap has placed the markers of two groups, one of them
\* with two members at different locations
C21_Witness ==
    /\ plot.step = "done"
    /\ Len(plot.markers) > 1
    /\ \E j, k \in 1 .. Len(data) :
         /\ j < k
         /\ group_id[data[j].index] = group_id[data[k].index]
         /\ LocationOf(data[j]) # LocationOf(data[k])

\* the display label of a record: its name, and its hours when it has both
DisplayLabel(row) ==
    "<span><b>" \o row.place_name \o "</b>"
        \o (IF row.open_time = NaN \/ row.close_time = NaN THEN ""
            ELSE " " \o row.open_time \o "-" \o row.close_time)
        \o "</span>"

\* the labels of the members of group g from position k of the data set on,
\* each after the separator unless it is the first
RECURSIVE MergedLabel(_, _, _)
MergedLabel(g, k, first) ==
    IF k > Len(data) THEN ""
    ELSE IF group_id[data[k].index] # g THEN MergedLabel(g, k + 1, first)
    ELSE (IF first THEN "" ELSE "<br><br>")
             \o DisplayLabel(data[k]) \o MergedLabel(g, k + 1, FALSE)

\* C22: the popup of each marker is the concatenation of the display labels
\* of all members of its group and of no other record, one label per member
\* in input order, joined by <br><br>; a member's label has its opening
\* hours only when both open_time and close_time are present
C22_PopupLabels ==
    plot.step = "done" =>
        \A m \in 1 .. Len(plot.markers) :
            plot.markers[m].popup = MergedLabel(m - 1, 1, TRUE)

\* C22 happens: a marker merges two members that are not neighbours in the
\* data set, one with both hours and one with its closing time only
C22_Witness ==
    /\ plot.step = "done"
    /\ Len(data) > 2
    /\ group_id[data[1].index] = group_id[data[3].index]
    /\ group_id[data[1].index] # group_id[data[2].index]
    /\ data[1].open_time # NaN /\ data[1].close_time # NaN
    /\ data[3].open_time = NaN /\ data[3].close_time # NaN

(***************************************************************************)
(* Properties of Map._processRow (SpecRow).                                *)
(***************************************************************************)
\* the row with index label i, in a sequence of rows
RowAt(d, i) == d[CHOOSE k \in 1 .. Len(d) : d[k].index = i]

\* a place_name that is missing or has nothing but white space
IsBlank(place_name) == place_name = NaN \/ place_name = "" \/ place_name = " "

\* what _processRow has made of the row before, with the link url
Enriched(before, after, url) ==
    /\ IF url.latitude # NoCoord /\ url.longitude # NoCoord
       THEN after.latitude = url.latitude /\ after.longitude = url.longitude
       ELSE after.latitude = before.latitude /\ after.longitude = before.longitude
    /\ IF IsBlank(before.place_name)
       THEN after.place_name = (IF url.place = "" THEN "Unknown" ELSE url.place)
       ELSE after.place_name = before.place_name
    /\ IF before.marker_colour = NaN
       THEN after.marker_colour = config.marker_colour
       ELSE after.marker_colour = before.marker_colour
    /\ after.link = before.link
    /\ after.open_time = before.open_time
    /\ after.close_time = before.close_time

\* C23: _processRow overwrites the latitude and longitude of the row with the
\* coordinates of its URL when the URL has some and leaves them otherwise; a
\* blank place_name (missing or white space) becomes the name in the URL, or
\* "Unknown" when the URL has none, and another name is left; an unset
\* marker_colour becomes the configured colour, and a set one is left
C23_ProcessRow ==
    \A i \in DOMAIN task :
        (task[i].state = "done" /\ gpc \in {"submitting", "results"}) =>
            Enriched(RowAt(DropNaLink(raw, 1), i), RowAt(data, i),
                     RowAt(DropNaLink(raw, 1), i).link)

\* C23 happens: a row with other coordinates than its URL, a place_name of
\* white space, a URL without a name and no colour has been processed
C23_Witness ==
    \E i \in DOMAIN task :
        /\ task[i].state = "done"
        /\ gpc = "results"
        /\ raw[1].link.latitude # NoCoord
        /\ raw[1].latitude \notin {NoCoord, raw[1].link.latitude}
        /\ raw[1].place_name = " "
        /\ raw[1].link.place = ""
        /\ raw[1].marker_colour = NaN
        /\ data[1].place_name = "Unknown"

(***************************************************************************)
(* Properties of getMarker and loadDataFromCSV (SpecLoad).                 *)
(***************************************************************************)
\* the places that loadDataFromCSV can hand to getMarker: the rows of the
\* file whose link has coordinates, completed as lines 99-105 complete them
Candidates ==
    { [link          |-> r.link,
       latitude      |-> extractCoordinates(r.link)[1],
       longitude     |-> extractCoordinates(r.link)[2],
       place_name    |-> IF r.place_name # "" THEN r.place_name
                         ELSE extractPlaceName(r.link),
       open_time     |-> r.open_time,
       close_time    |-> r.close_time,
       marker_colour |-> r.marker_colour] :
      r \in { c \in CsvRows : c.link # NoLink
                              /\ extractCoordinates(c.link)[1] # NoCoord } }

\* the label of a place
LabelOf(row) ==
    [name |-> row.place_name, hours |-> (row.open_time # "" /\ row.close_time # "")]

\* the unweighted mean of the column of the places of marker m and of the
\* candidate, as a quotient in lowest terms
MeanWith(w, m, row, column) ==
    LET members == { pl \in w.place : pl.marker_id = m }
        total == IF column = "latitude" THEN SumLatitude(members)
                 ELSE SumLongitude(members)
    IN  Frac(total + row[column], Cardinality(members) + 1)

\* the marker table after getMarker has merged the candidate into marker m
Merged(w, m, row) ==
    [w.marker EXCEPT ![m] = [@ EXCEPT !.name = @ \o <<LabelOf(row)>>,
                                      !.latitude = MeanWith(w, m, row, "latitude"),
                                      !.longitude = MeanWith(w, m, row, "longitude")]]

\* the marker table after getMarker has inserted a marker for the candidate
Inserted(w, row) ==
    Append(w.marker, [name      |-> <<LabelOf(row)>>,
                      latitude  |-> Frac(row.latitude, 1),
                      longitude |-> Frac(row.longitude, 1),
                      icon_id   |-> IF row.marker_colour # "green" THEN 2 ELSE 3])

\* what the claim says of one call of getMarker, from the tables w to w2
GetMarkerStep(w, w2) ==
    \E row \in Candidates :
        LET near == { m \in 1 .. Len(w.marker) : ~TooFar(row, w.marker[m], threshold) }
        IN  /\ IF near = {}
               THEN w2.marker = Inserted(w, row)
               ELSE \E m \in near : w2.marker = Merged(w, m, row)
            /\ w2.place \subseteq w.place \cup { pl \in w2.place : pl.link = row.link }

\* C24: getMarker merges an incoming place into an existing marker within the
\* threshold: the marker's location becomes the unweighted mean of the
\* coordinates of all its prior places and of the candidate, and its label
\* the old label, the separator and the new label; the place joins at most
\* one marker; when no marker is within the threshold, exactly one marker is
\* inserted, at the place's coordinates and with its label
C24_GetMarker ==
    [][\A p \in AllProcs :
          (pc[p] = "l_loop" /\ work'[p].marker # work[p].marker)
              => GetMarkerStep(work[p], work'[p])]_vars

\* process p ends its loadDataFromCSV in this step
LoadEnds(p) ==
    /\ op[p].name = "loadDataFromCSV"
    /\ pc[p] # "done"
    /\ pc'[p] = "done"

\* C25: loadDataFromCSV is transactional over the whole file: when a row
\* fails, every marker insert, marker update and place insert made for the
\* earlier rows of the call is rolled back and the marker and place tables
\* are as they were before the call; on success all rows are committed
\* together
C25_Transactional ==
    [][/\ store' # store =>
              \E p \in AllProcs :
                  LoadEnds(p) /\ ret'[p] = "ok" /\ store' = work[p]
       /\ \A p \in AllProcs :
              (LoadEnds(p) /\ ret'[p] # "ok") =>
                  (store' = store /\ work'[p] = store)
       /\ \A p \in AllProcs :
              (LoadEnds(p) /\ ret'[p] = "ok") =>
                  (store' = work[p] /\ work'[p] = store')]_vars

\* C25 happens: a call that had written rows for an earlier row of its file
\* has failed
C25_Witness ==
    \E p \in AllProcs :
        /\ op[p].name = "loadDataFromCSV"
        /\ pc[p] = "done"
        /\ ret[p] \notin {"ok", "none"}
        /\ load[p].written > 0
        /\ Len(store.marker) > 0

\* the place rows of the committed tables that reference marker m
PlacesOf(m) == { pl \in store.place : pl.marker_id = m }

\* C26: loading is idempotent per link: after any sequence of loadDataFromCSV
\* calls, the same file twice included, the place table has one row per
\* link, and the merged label of every marker has exactly one entry for each
\* place row that references it: a row skipped by ON CONFLICT (link) DO
\* NOTHING changes no marker and creates no marker without places
C26_IdempotentPerLink ==
    /\ \A pl1, pl2 \in store.place : pl1.link = pl2.link => pl1 = pl2
    /\ \A m \in 1 .. Len(store.marker) :
           /\ PlacesOf(m) # {}
           /\ Len(store.marker[m].name) = Cardinality(PlacesOf(m))
           /\ \A pl \in PlacesOf(m) :
                  \E k \in 1 .. Len(store.marker[m].name) :
                      store.marker[m].name[k].name = pl.name

(***************************************************************************)
(* Properties of the drop-on-failure step of createDatabase (SpecMigrate). *)
(***************************************************************************)
\* C27: a failed createDatabase never removes a database that existed before
\* the call: the drop-on-failure step removes only a database that this call
\* has created, so a database that was there before, whether the call took
\* the 'already exists' branch or failed before CREATE DATABASE ran, is left
\* in place with its data
C27_KeepsExistingDatabase ==
    \A p \in AllProcs :
        (Returned(p, "createDatabase") /\ ret[p] # "ok" /\ pre[p].exists) =>
            /\ db.exists
            /\ pre[p].ledger \subseteq db.ledger
            /\ pre[p].changes \subseteq db.changes

====
